---- MODULE Spec2Model ----
(***************************************************************************)
(* Cross-tab profile / analysis-history synchronisation of seseko197/pp.   *)
(* The module models the browser-side coordinators CoreSyncSystem          *)
(* (core_sync_system.js), UnifiedSyncManager (unified_sync_manager.js),    *)
(* UnifiedSyncSystem (unified_sync_system.js), the IndexedDB LocalDB        *)
(* (localdb.js) and the startup migration (init_sync_system.js) over one   *)
(* shared localStorage.                                                    *)
(*                                                                         *)
(* Specifications:                                                         *)
(*   SpecHist   history list operations on the analysisHistory key         *)
(*   SpecDel    operations that address a history record by id             *)
(*   SpecStore  profile save / read and the startup migration              *)
(*   SpecRead   getUserProfile of CoreSyncSystem / UnifiedSyncSystem and    *)
(*              the startup initialization (initUnifiedSyncSystem)         *)
(*   SpecTrig   the sync trigger written by the profile saves, with the    *)
(*              fairness of its removal timer                              *)
(*   SpecInit   the steps of initUnifiedSyncSystem: script loading, the     *)
(*              timeout, the backup system                                 *)
(*   SpecUpdate UnifiedSyncManager.updateUserProfile with the remote API   *)
(*   SpecDisplay UnifiedSyncManager.updateProfileDisplay and the listener  *)
(*              of the unifiedProfileUpdated event it dispatches           *)
(*   SpecSub    subscribe / unsubscribe / notifySubscribers of             *)
(*              UnifiedSyncManager                                         *)
(*   SpecAdapter the storage adapter (secureStorage)                       *)
(*   Spec       the sync scheduler of one tab (both coordinators), with    *)
(*              the fairness of promises that settle                       *)
(*   SpecTabs   two tabs running CoreSyncSystem over one localStorage,     *)
(*              with the fairness of timers and promises                   *)
(*   SpecTabsUSM two tabs running UnifiedSyncManager with a logged-in      *)
(*              apiService, with the same fairness                         *)
(*   SpecBatch  LocalDB.batchDeleteAnalysisRecords: its requests, its       *)
(*              transaction and its promises, with the fairness of events  *)
(*   SpecCreds  the stored credentials: saveCredentials, verifyPassword     *)
(*              and the repair applySecurityFixes makes at every page load *)
(*   SpecDBM    DBManager (unified_sync_manager.js) in its local fallback  *)
(*              mode: add, update and read of the history                  *)
(*   SpecResume the syncAllData of UnifiedSyncManager.init() awaiting the  *)
(*              remote API, and saveProfile calls made meanwhile           *)
(***************************************************************************)
EXTENDS Integers, Sequences, FiniteSets, TLC

VARIABLES
    histStore,      \* localStorage: analysisHistory and the legacy history keys
    profStore,      \* localStorage: the canonical and legacy profile keys
    trig,           \* localStorage: the sync-trigger keys (0 = key absent)
    trigTimers,     \* per tab: pending setTimeout(removeItem(trigger), 200) callbacks
    syncTime,       \* localStorage: the last-sync-time keys (0 = key absent)
    localDB,        \* what window.localDB is in the pages
    dbHistory,      \* IndexedDB object store 'analysisHistory' of LocalDB
    dbProfile,      \* IndexedDB object store 'userProfile' of LocalDB
    pageSyncFn,     \* whether the page defines a global syncAnalysisHistory()
    apiService,     \* whether window.apiService exists and is logged in
    syncSystem,     \* the coordinator the pages run: "core" or "usm"
    open,           \* the tabs that run the coordinator
    isSyncing,      \* per tab: state.isSyncing
    isEditingProfile, \* per tab: state.isEditingProfile
    display,        \* per tab: textContent of the profile-name element
    passes,         \* per tab: the syncAllData calls that have not returned
    pendingUser,    \* per tab: syncUserData calls outside a pass awaiting a promise
    pendingHist,    \* CoreSyncSystem.syncAnalysisHistory calls awaiting localDB
    debounce,       \* per tab: key of the storage event held by the debounce timer
    sinceSync,      \* per tab: time since state.lastSyncTime, in SinceLevels
    focusThrottle,  \* per tab: whether focusThrottleTimer is set
    now,            \* Date.now()
    ops,            \* number of calls made by the user or the environment
    log,            \* the last operations and what they returned (observation)
    before,         \* the analysisHistory value the last operation started from
    migr,           \* consecutive migrateAllData runs and the state between them
    updates,        \* updateUserProfile calls awaiting apiService.updateUserProfile
    subscribers,    \* UnifiedSyncManager.subscribers: event name -> callbacks
    window,         \* the globals initUnifiedSyncSystem tests and sets
    initRuns,       \* initUnifiedSyncSystem calls that have not returned: what each awaits
    displayStack,   \* the updateProfileDisplay calls on the call stack: their profiles
    batch,          \* the LocalDB.batchDeleteAnalysisRecords call: its requests and promises
    credentials     \* localStorage: the key userCredentials

histVars == <<histStore, trig, trigTimers, localDB, dbHistory, pendingHist>>
\* what only initialization and the calls of the public API change
cfgVars == <<localDB, dbProfile, pageSyncFn, apiService, syncSystem, open, updates,
             subscribers,
             window,
             initRuns,
             displayStack,
             batch,
             credentials>>
\* the state of the parts of a page that are modelled on their own
extVars == <<initRuns,
             displayStack,
             batch,
             credentials>>
tabVars == <<isSyncing, isEditingProfile, display, passes, pendingUser, debounce,
             sinceSync, focusThrottle>>
\* what the history operations leave alone
schedVars == <<profStore, syncTime, dbProfile, pageSyncFn, apiService, syncSystem, open,
               isSyncing, isEditingProfile, display, passes, pendingUser, debounce, sinceSync,
               focusThrottle, migr, updates, subscribers,
               window,
               initRuns,
               displayStack,
               batch,
               credentials>>
vars == <<histStore, profStore, trig, trigTimers, syncTime, localDB, dbHistory, dbProfile,
          pageSyncFn, apiService, syncSystem, open, isSyncing, isEditingProfile, display,
          passes, pendingUser, pendingHist, debounce, sinceSync, focusThrottle, now, ops, log,
          before, migr, updates, subscribers,
          window,
          initRuns,
          displayStack,
          batch,
          credentials>>

Tabs == {"A", "B"}
\* window when the scripts of a page start: unifiedSyncInitialized and
\* _coreSyncInitInProgress are not set, no coordinator is installed
WindowAtLoad ==
    [unifiedSyncInitialized |-> FALSE, coreSyncInitInProgress |-> FALSE,
     unifiedSyncManager |-> "undefined", coreSyncSystem |-> "undefined"]
\* no LocalDB.batchDeleteAnalysisRecords call was made
NoBatch ==
    [ids |-> <<>>, next |-> 0, deletedCount |-> 0, inner |-> "none", tx |-> "none",
     outer |-> "none", value |-> 0]
\* a text as the password field holds it: the characters of a plain text and
\* the number of times encrypt (btoa) was applied to it
Text(base, layers) == [base |-> base, layers |-> layers]
\* localStorage without the key userCredentials
NoCredentials == [present |-> FALSE, username |-> "", password |-> Text(<<>>, 0), savedAt |-> 0]
\* the event names pages subscribe to
EventNames == {"profileUpdated", "historyUpdated"}
\* the tab in which the history operations are called
ThisTab == "A"

----------------------------------------------------------------------------
(* Bounds of the exploration *)
MaxOps == 2
\* syncAllData calls of one tab the model follows at the same time
MaxPasses == 2
\* calls the user or the environment makes on the scheduler of a tab
MaxCalls == 1
\* subscribe / unsubscribe / notifySubscribers calls of one behaviour
MaxSubCalls == 4
\* nested calls the call stack of the page holds before the engine throws a
\* RangeError (the engine's number is in the thousands)
MaxStack == 3
\* the longest list of ids handed to batchDeleteAnalysisRecords
MaxIds == 3

(* Program constants *)
maxHistoryRecords == 100

----------------------------------------------------------------------------
(* JavaScript values used as record ids: numbers and strings.              *)
(* A string is a sequence of one-character strings.                        *)

NaN == -1

IdNum(n) == [t |-> "number", n |-> n, s |-> <<>>]
IdStr(s) == [t |-> "string", n |-> 0, s |-> s]

Digits == <<"0", "1", "2", "3", "4", "5", "6", "7", "8", "9">>

IsDigit(c) == \E i \in 1..10 : Digits[i] = c

DigitVal(c) == (CHOOSE i \in 1..10 : Digits[i] = c) - 1

RECURSIVE DigitsValue(_, _)
DigitsValue(s, acc) ==
    IF s = <<>> THEN acc ELSE DigitsValue(Tail(s), acc * 10 + DigitVal(Head(s)))

RECURSIVE DigitPrefix(_)
DigitPrefix(s) ==
    IF s = <<>> \/ ~IsDigit(Head(s)) THEN <<>> ELSE <<Head(s)>> \o DigitPrefix(Tail(s))

\* parseInt(s): the value of the longest decimal prefix, NaN when there is none
ParseInt(s) ==
    IF DigitPrefix(s) = <<>> THEN NaN ELSE DigitsValue(DigitPrefix(s), 0)

\* Number(s), the conversion == applies: "" is 0, a non-numeric string is NaN
ToNumber(s) ==
    IF s = <<>> THEN 0
    ELSE IF \A i \in 1..Len(s) : IsDigit(s[i]) THEN DigitsValue(s, 0) ELSE NaN

\* n.toString()
RECURSIVE NumToStr(_)
NumToStr(n) ==
    IF n < 10 THEN <<Digits[n + 1]>> ELSE NumToStr(n \div 10) \o <<Digits[(n % 10) + 1]>>

\* a === b
StrictEq(a, b) == a = b

\* a == b
LooseEq(a, b) ==
    IF a.t = b.t THEN a = b
    ELSE LET num == IF a.t = "number" THEN a.n ELSE b.n
             str == IF a.t = "string" THEN a.s ELSE b.s
         IN  ToNumber(str) # NaN /\ ToNumber(str) = num

----------------------------------------------------------------------------
(* History records and the stored text of a history key                    *)

IdNone == [t |-> "undefined", n |-> 0, s |-> <<>>]

Rec(id, ts, score, created, updated) ==
    [id |-> id, timestamp |-> ts, score |-> score, createdAt |-> created,
     updatedAt |-> updated]

HAbsent == [tag |-> "absent", list |-> <<>>]
HCorrupt == [tag |-> "corrupt", list |-> <<>>]
HList(l) == [tag |-> "list", list |-> l]

HistoryKeys == {"analysisHistory", "historyRecords", "analysis_records",
                "analysisHistory_default"}
TrigKeys == {"core_sync_trigger", "unified_sync_trigger"}
SyncTimeKeys == {"core_last_sync_time", "unified_last_sync_time"}

Min(a, b) == IF a < b THEN a ELSE b

\* Array.prototype.slice(0, n)
Slice(l, n) == SubSeq(l, 1, Min(n, Len(l)))

IsSortedDesc(l) == \A i \in 1..(Len(l) - 1) : l[i].timestamp >= l[i + 1].timestamp

\* the list whose p-th element is the element of l that pos sends to p
Permuted(l, pos) == [p \in 1..Len(l) |-> l[CHOOSE i \in 1..Len(l) : pos[i] = p]]

\* Array.prototype.sort((a, b) => b.timestamp - a.timestamp): stable, descending.
\* Element i goes to the position after every element that compares before it;
\* a list already in order is returned as it is.
SortDesc(l) ==
    IF IsSortedDesc(l) THEN l
    ELSE Permuted(l, <<>> \o [i \in 1..Len(l) |->
                       1 + Cardinality({j \in 1..Len(l) :
                              \/ l[j].timestamp > l[i].timestamp
                              \/ l[j].timestamp = l[i].timestamp /\ j < i})])

\* JSON.parse(localStorage.getItem(key)) throws on a value that is not JSON
ParseThrows(text) == text.tag = "corrupt"

\* JSON.parse(localStorage.getItem(key)) || []
ParseOrEmpty(text) == IF text.tag = "list" THEN text.list ELSE <<>>

----------------------------------------------------------------------------
(* CoreSyncSystem / UnifiedSyncSystem history operations                   *)

\* recordData of addAnalysisRecord,
\* { ...record, id: Date.now() + random, timestamp: record.timestamp || now,
\*   createdAt: now }: the id written after the spread replaces record.id
RecordData(record, t, rand) ==
    Rec(IdNum(t + rand),
        IF record.timestamp # 0 THEN record.timestamp ELSE t,
        record.score, t, 0)

\* variant of AddedList: the new record is pushed at the end of the list
AddedListPush(historyRecords, recordData) ==
    Slice(historyRecords \o <<recordData>>, maxHistoryRecords)

\* historyRecords.unshift(recordData); historyRecords.slice(0, maxHistoryRecords)
AddedList(historyRecords, recordData) ==
    Slice(<<recordData>> \o historyRecords, maxHistoryRecords)

\* the filter callback of CoreSyncSystem.deleteAnalysisRecord: TRUE keeps the record
CoreDeleteKeeps(rid, id) ==
    IF StrictEq(rid, id) THEN FALSE
    ELSE IF LooseEq(rid, id) THEN FALSE
    ELSE IF rid.t = "number" /\ id.t = "string" THEN rid.n # ParseInt(id.s)
    ELSE IF rid.t = "string" /\ id.t = "number" THEN rid.s # NumToStr(id.n)
    ELSE TRUE

\* the filter callback of UnifiedSyncSystem.deleteAnalysisRecord: record.id != id
USSDeleteKeeps(rid, id) == ~LooseEq(rid, id)

DeleteKeeps(sys, rid, id) ==
    IF sys = "core" THEN CoreDeleteKeeps(rid, id) ELSE USSDeleteKeeps(rid, id)

DeletedList(sys, historyRecords, id) ==
    LET keep(r) == DeleteKeeps(sys, r.id, id) IN SelectSeq(historyRecords, keep)

\* the list l without its i-th element
Without(l, i) == SubSeq(l, 1, i - 1) \o SubSeq(l, i + 1, Len(l))

\* Array.prototype.findIndex: the index of the first element that passes the
\* test, 0 standing for -1
FindIndex(tests) ==
    IF \E i \in 1..Len(tests) : tests[i]
    THEN CHOOSE i \in 1..Len(tests) : tests[i] /\ \A j \in 1..(i - 1) : ~tests[j]
    ELSE 0

\* variant of UpdateIndex: an id that is not found addresses the first record
UpdateIndexOrFirst(historyRecords, id) ==
    LET loose == [i \in 1..Len(historyRecords) |-> LooseEq(historyRecords[i].id, id)] IN
    IF FindIndex(loose) # 0 THEN FindIndex(loose)
    ELSE Min(1, Len(historyRecords))

\* recordIndex of UnifiedSyncSystem.updateAnalysisRecord: ===, then ==, then
\* parseInt(id) for a string id and id.toString() for a number id
UpdateIndex(historyRecords, id) ==
    LET Converted(r) ==
            IF id.t = "string"
            THEN ParseInt(id.s) # NaN /\ StrictEq(r.id, IdNum(ParseInt(id.s)))
            ELSE id.t = "number" /\ StrictEq(r.id, IdStr(NumToStr(id.n)))
        idx == 1..Len(historyRecords)
        strict == [i \in idx |-> StrictEq(historyRecords[i].id, id)]
        loose == [i \in idx |-> LooseEq(historyRecords[i].id, id)]
        converted == [i \in idx |-> Converted(historyRecords[i])]
    IN  IF FindIndex(strict) # 0 THEN FindIndex(strict)
        ELSE IF FindIndex(loose) # 0 THEN FindIndex(loose)
        ELSE FindIndex(converted)

\* variant of UpdatedRecord: { ...updatedData, ...historyRecords[recordIndex] }
UpdatedRecordPatchUnder(old, updatedData, t) ==
    Rec(old.id, old.timestamp, old.score, old.createdAt, t)

\* updatedRecord of updateAnalysisRecord:
\* { ...historyRecords[recordIndex], ...updatedData, updatedAt: now }
\* (a field updatedData does not have is 0)
UpdatedRecord(old, updatedData, t) ==
    Rec(old.id,
        IF updatedData.timestamp # 0 THEN updatedData.timestamp ELSE old.timestamp,
        IF updatedData.score # 0 THEN updatedData.score ELSE old.score,
        old.createdAt, t)

\* getAllAnalysisHistory with the sort left out (variant)
GetAllAnalysisHistoryUnsorted(text) == ParseOrEmpty(text)

\* getAllAnalysisHistory: [] when the stored value is absent or does not parse
GetAllAnalysisHistory(text) ==
    IF ParseThrows(text) THEN <<>> ELSE SortDesc(ParseOrEmpty(text))

\* UnifiedSyncManager.saveAnalysisHistory
USMSavedHistory(history) == Slice(history, maxHistoryRecords)

\* the value CoreSyncSystem.syncAnalysisHistory writes as backup
BackupList(history) == history

\* LocalDB.getAllAnalysisHistory: store.getAll() sorted by descending timestamp
LocalDBGetAll(db) == SortDesc(db)

----------------------------------------------------------------------------
(* Profiles and the stored text of a profile key                           *)

\* a field the object does not have
Undef == "undefined"
\* the name element before any profile was shown
NoName == "(placeholder)"
NoKey == "none"

\* a profile object; updatedAt = 0 when the object has no updatedAt
Profile(id, fullname, email, updatedAt) ==
    [id |-> id, fullname |-> fullname, email |-> email, updatedAt |-> updatedAt]

NoProfile == Profile(Undef, Undef, Undef, 0)

\* the stored text of a key: absent, not JSON, JSON of a number, JSON of an object
PAbsent == [tag |-> "absent", obj |-> NoProfile]
PCorrupt == [tag |-> "corrupt", obj |-> NoProfile]
PScalar == [tag |-> "scalar", obj |-> NoProfile]
\* JSON.stringify(object), read back by JSON.parse
PObj(o) == [tag |-> "obj", obj |-> o]

\* the order in which migrateAllData visits the profile keys
profileKeys ==
    <<"userProfileData", "unified_user_profile", "ultimate_user_profile", "currentUser",
      "core_user_profile">>
\* the order in which migrateAllData visits the history keys
historyKeys == <<"analysisHistory", "historyRecords", "analysis_records">>
\* variant of legacyKeys: unified_user_profile is looked at first
legacyKeysUnifiedFirst ==
    <<"unified_user_profile", "userProfileData", "ultimate_user_profile", "currentUser">>
\* legacyKeys of CoreSyncSystem.getUserProfile
legacyKeys ==
    <<"userProfileData", "unified_user_profile", "ultimate_user_profile", "currentUser">>

ProfileKeySet == {profileKeys[i] : i \in 1..Len(profileKeys)}

\* storageKeys.profile / storageKeys.syncTrigger of the coordinator
ProfileKey(sys) == IF sys = "core" THEN "core_user_profile" ELSE "unified_user_profile"
TriggerKey(sys) == IF sys = "core" THEN "core_sync_trigger" ELSE "unified_sync_trigger"
\* storageKeys.lastSyncTime
LastSyncKey(sys) ==
    IF sys = "core" THEN "core_last_sync_time" ELSE "unified_last_sync_time"

\* { ...a, ...b }: the fields of b win
Spread(a, b) ==
    Profile(IF b.id # Undef THEN b.id ELSE a.id,
            IF b.fullname # Undef THEN b.fullname ELSE a.fullname,
            IF b.email # Undef THEN b.email ELSE a.email,
            IF b.updatedAt # 0 THEN b.updatedAt ELSE a.updatedAt)

\* variant of CoreUserData: the fixed id is written after the caller's fields
CoreUserDataIdLast(profile, t) ==
    Spread(Spread(profile, Profile("currentUser", Undef, Undef, 0)),
           Profile(Undef, Undef, Undef, t))

\* userData of CoreSyncSystem.saveUserProfile:
\* { id: 'currentUser', ...profile, updatedAt: new Date().toISOString() }
CoreUserData(profile, t) ==
    Spread(Spread(Profile("currentUser", Undef, Undef, 0), profile),
           Profile(Undef, Undef, Undef, t))

\* profileToSave of UnifiedSyncManager.saveProfile:
\* { id: profile.id || 'currentUser', ...profile, updatedAt: ... }
USMProfileToSave(profile, t) ==
    Spread(Spread(Profile(IF profile.id # Undef THEN profile.id ELSE "currentUser",
                          Undef, Undef, 0), profile),
           Profile(Undef, Undef, Undef, t))

\* the first key of the list whose stored text is not empty (null when none is)
RECURSIVE FirstPresent(_, _)
FirstPresent(store, keys) ==
    IF keys = <<>> THEN PAbsent
    ELSE IF store[Head(keys)].tag # "absent" THEN store[Head(keys)]
    ELSE FirstPresent(store, Tail(keys))

\* profileData of CoreSyncSystem.getUserProfile: the canonical key, else the
\* first legacy key that holds something
CoreProfileData(store) ==
    IF store["core_user_profile"].tag # "absent" THEN store["core_user_profile"]
    ELSE FirstPresent(store, legacyKeys)

\* what CoreSyncSystem.getUserProfile returns (tag "absent" stands for null)
CoreGetUserProfile(store) ==
    IF CoreProfileData(store).tag = "corrupt" THEN PAbsent ELSE CoreProfileData(store)

\* the store after CoreSyncSystem.getUserProfile: text that does not parse
\* makes it remove the canonical key
CoreGetUserProfileStore(store) ==
    IF CoreProfileData(store).tag = "corrupt"
    THEN [store EXCEPT !["core_user_profile"] = PAbsent] ELSE store

\* what UnifiedSyncManager.getProfile returns
USMGetProfile(store) ==
    IF store["unified_user_profile"].tag = "corrupt" THEN PAbsent
    ELSE store["unified_user_profile"]

\* CoreSyncSystem.updateProfileDisplay: the name element after the call
CoreDisplayAfter(shown, profile) ==
    IF profile.tag = "obj" /\ profile.obj.fullname # Undef THEN profile.obj.fullname
    ELSE shown

\* UnifiedSyncManager.updateProfileDisplay: only an element that has text is
\* rewritten.  The unifiedProfileUpdated event it dispatches re-enters it
\* through the listener of setupEventListeners until the call stack is
\* exhausted; the element is written before the event is dispatched and the
\* callers catch the error, so the call returns.
USMDisplayAfter(shown, profile) ==
    IF profile.tag = "obj" /\ profile.obj.fullname # Undef /\ shown # ""
    THEN profile.obj.fullname ELSE shown

\* the object passed on when a parsed value is spread into a profile
AsObject(value) == IF value.tag = "obj" THEN value.obj ELSE NoProfile

\* the profile store after a successful CoreSyncSystem.saveUserProfile
CoreSavedStore(store, profile, t) ==
    [store EXCEPT !["core_user_profile"] = PObj(CoreUserData(profile, t))]

\* the profile store after UnifiedSyncManager.saveProfile: the canonical key
\* and userProfileData
USMSavedStore(store, profile, t) ==
    [store EXCEPT !["unified_user_profile"] = PObj(USMProfileToSave(profile, t)),
                  !["userProfileData"] = PObj(USMProfileToSave(profile, t))]

----------------------------------------------------------------------------
(* migrateAllData (init_sync_system.js)                                    *)

\* the profile loop: the first key holding an object is saved through the
\* coordinator; text that does not parse, and under CoreSyncSystem an object
\* whose save throws, is removed.  saved: whether localStorage.setItem works.
RECURSIVE MigrateProfile(_, _, _, _, _)
MigrateProfile(store, keys, sys, t, saved) ==
    IF keys = <<>> THEN [store |-> store, migrated |-> PAbsent]
    ELSE LET key == Head(keys)
             val == store[key]
         IN  IF val.tag = "absent" \/ val.tag = "scalar"
             THEN MigrateProfile(store, Tail(keys), sys, t, saved)
             ELSE IF val.tag = "corrupt"
             THEN MigrateProfile([store EXCEPT ![key] = PAbsent], Tail(keys), sys, t, saved)
             ELSE IF sys = "core"
             THEN IF saved
                  THEN [store |-> CoreSavedStore(store, val.obj, t),
                        migrated |-> PObj(CoreUserData(val.obj, t))]
                  ELSE MigrateProfile([store EXCEPT ![key] = PAbsent], Tail(keys),
                                      sys, t, saved)
             ELSE [store |-> IF saved THEN USMSavedStore(store, val.obj, t) ELSE store,
                   migrated |-> IF saved THEN PObj(USMProfileToSave(val.obj, t))
                                ELSE PAbsent]

\* variant of ValidRecords: the records after the first are kept
ValidRecordsOffByOne(records, t) ==
    [i \in 1..Len(SubSeq(records, 2, Min(Len(records), maxHistoryRecords + 1))) |->
        LET r == records[i + 1] IN
        [r EXCEPT !.id = IF r.id = IdNone THEN IdStr(NumToStr(t)) ELSE r.id,
                  !.createdAt = IF r.createdAt = 0 THEN t ELSE r.createdAt]]

\* validRecords: records.slice(0, 100), each given an id and a createdAt when
\* it has none
ValidRecords(records, t) ==
    [i \in 1..Len(Slice(records, maxHistoryRecords)) |->
        LET r == records[i] IN
        [r EXCEPT !.id = IF r.id = IdNone THEN IdStr(NumToStr(t)) ELSE r.id,
                  !.createdAt = IF r.createdAt = 0 THEN t ELSE r.createdAt]]

\* the history loop: the first key holding a non-empty array is written to
\* analysisHistory when the coordinator reports no history of its own
\* (UnifiedSyncManager has no getAllAnalysisHistory, so it always reports none)
RECURSIVE MigrateHistory(_, _, _, _, _)
MigrateHistory(store, keys, sys, t, saved) ==
    IF keys = <<>> THEN store
    ELSE LET key == Head(keys)
             val == store[key]
         IN  IF val.tag = "absent" \/ (val.tag = "list" /\ Len(val.list) = 0)
             THEN MigrateHistory(store, Tail(keys), sys, t, saved)
             ELSE IF val.tag = "corrupt"
             THEN MigrateHistory([store EXCEPT ![key] = HAbsent], Tail(keys), sys, t, saved)
             ELSE LET systemHistory ==
                          IF sys = "core"
                          THEN GetAllAnalysisHistory(store["analysisHistory"]) ELSE <<>>
                  IN  IF Len(systemHistory) # 0 THEN store
                      ELSE IF saved
                      THEN [store EXCEPT !["analysisHistory"] =
                                HList(ValidRecords(val.list, t))]
                      ELSE MigrateHistory([store EXCEPT ![key] = HAbsent], Tail(keys),
                                          sys, t, saved)

\* the canonical profile with updatedAt left out
CanonicalProfile(store, sys) ==
    [store[ProfileKey(sys)] EXCEPT !.obj.updatedAt = 0]

MigrNone == [runs |-> 0, ok |-> TRUE, profile |-> PAbsent, history |-> HAbsent]

----------------------------------------------------------------------------
(* Observation log                                                         *)

NoRec == Rec(IdNone, 0, 0, 0, 0)
NoArg == [timestamp |-> 0, score |-> 0]

\* one observed call: the operation, the coordinator, the caller's record, the
\* record the call built, the id argument and the outcome
Entry(op, sys, arg, rec, id, ret) ==
    [op |-> op, sys |-> sys, arg |-> arg, rec |-> rec, id |-> id, ret |-> ret]

\* keep the last two operations
Logged(e) == IF Len(log) < 2 THEN Append(log, e) ELSE <<log[2], e>>

Hist == histStore["analysisHistory"]

----------------------------------------------------------------------------
(* Inputs                                                                  *)

T0 == 1000
OldTs == 5
RandVals == {0}
\* milliseconds that pass between two calls
Elapsed == {0, 1}
Scores == {60, 80}
Systems == {"core", "uss"}

\* records a caller passes to addAnalysisRecord
NewRecords ==
    {[id |-> IdNone, timestamp |-> 0, score |-> sc] : sc \in Scores}
    \cup {[id |-> IdStr(<<"r", "1">>), timestamp |-> OldTs, score |-> 60]}

\* a stored list of n records in descending timestamp order, ids of both types
BaseId(i) == IF i % 2 = 1 THEN IdNum(40 + i) ELSE IdStr(NumToStr(40 + i))
BaseList(n) == [i \in 1..n |-> Rec(BaseId(i), 500 - i, 50, 500 - i, 0)]

\* ids a caller passes to deleteAnalysisRecord
DeleteArgs ==
    {IdNum(42), IdStr(<<"4", "1">>), IdStr(<<"4", "1", "a", "b", "c">>),
     IdStr(<<"a", "b", "c">>), IdNum(7)}

----------------------------------------------------------------------------
(* Actions of the history specification                                    *)

\* CoreSyncSystem.triggerSync in tab tab at time t: write the trigger, schedule
\* its removal
CoreTriggerSyncIn(tab, t) ==
    /\ trig' = [trig EXCEPT !["core_sync_trigger"] = t]
    /\ trigTimers' = [trigTimers EXCEPT ![tab] = @ + 1]

CoreTriggerSync(t) == CoreTriggerSyncIn(ThisTab, t)

\* UnifiedSyncSystem.triggerSync: write the trigger
USSTriggerSync(t) ==
    /\ trig' = [trig EXCEPT !["unified_sync_trigger"] = t]
    /\ UNCHANGED trigTimers

\* CoreSyncSystem.syncAnalysisHistory up to its first await
StartSyncAnalysisHistory ==
    IF localDB # "none" THEN pendingHist' = pendingHist + 1 ELSE UNCHANGED pendingHist

\* CoreSyncSystem.addAnalysisRecord with its triggerSync and the
\* coreAnalysisHistoryUpdated listener (handleAnalysisHistoryUpdate)
CoreAddAnalysisRecord(record, rand, dt) ==
    /\ ops < MaxOps
    /\ ops' = ops + 1
    /\ now' = now + dt
    /\ before' = Hist
    /\ IF ParseThrows(Hist)
       THEN /\ log' = Logged(Entry("add", "core", record, NoRec, IdNone, "throws"))
            /\ UNCHANGED <<histStore, trig, trigTimers, pendingHist>>
       ELSE LET recordData == RecordData(record, now + dt, rand) IN
            /\ histStore' = [histStore EXCEPT !["analysisHistory"] =
                                HList(AddedList(ParseOrEmpty(Hist), recordData))]
            /\ CoreTriggerSync(now + dt)
            /\ StartSyncAnalysisHistory
            /\ log' = Logged(Entry("add", "core", record, recordData, IdNone, "ok"))
    /\ UNCHANGED <<localDB, dbHistory>>
    /\ UNCHANGED schedVars

\* UnifiedSyncSystem.addAnalysisRecord
USSAddAnalysisRecord(record, rand, dt) ==
    /\ ops < MaxOps
    /\ ops' = ops + 1
    /\ now' = now + dt
    /\ before' = Hist
    /\ IF ParseThrows(Hist)
       THEN /\ log' = Logged(Entry("add", "uss", record, NoRec, IdNone, "throws"))
            /\ UNCHANGED <<histStore, trig, trigTimers>>
       ELSE LET recordData == RecordData(record, now + dt, rand) IN
            /\ histStore' = [histStore EXCEPT !["analysisHistory"] =
                                HList(AddedList(ParseOrEmpty(Hist), recordData))]
            /\ USSTriggerSync(now + dt)
            /\ log' = Logged(Entry("add", "uss", record, recordData, IdNone, "ok"))
    /\ UNCHANGED <<localDB, dbHistory, pendingHist>>
    /\ UNCHANGED schedVars

\* CoreSyncSystem.deleteAnalysisRecord
CoreDeleteAnalysisRecord(id) ==
    /\ ops < MaxOps
    /\ ops' = ops + 1
    /\ before' = Hist
    /\ IF ParseThrows(Hist)
       THEN /\ log' = Logged(Entry("delete", "core", NoArg, NoRec, id, "throws"))
            /\ UNCHANGED <<histStore, trig, trigTimers, pendingHist>>
       ELSE LET updatedRecords == DeletedList("core", ParseOrEmpty(Hist), id) IN
            /\ histStore' = [histStore EXCEPT !["analysisHistory"] = HList(updatedRecords)]
            /\ CoreTriggerSync(now)
            /\ StartSyncAnalysisHistory
            /\ log' = Logged(Entry("delete", "core", NoArg, NoRec, id,
                        IF Len(updatedRecords) # Len(ParseOrEmpty(Hist))
                        THEN "true" ELSE "false"))
    /\ UNCHANGED <<localDB, dbHistory, now>>
    /\ UNCHANGED schedVars

\* UnifiedSyncSystem.deleteAnalysisRecord
USSDeleteAnalysisRecord(id) ==
    /\ ops < MaxOps
    /\ ops' = ops + 1
    /\ before' = Hist
    /\ IF ParseThrows(Hist)
       THEN /\ log' = Logged(Entry("delete", "uss", NoArg, NoRec, id, "false"))
            /\ UNCHANGED <<histStore, trig, trigTimers>>
       ELSE LET filteredRecords == DeletedList("uss", ParseOrEmpty(Hist), id) IN
            IF Len(filteredRecords) # Len(ParseOrEmpty(Hist))
            THEN /\ histStore' = [histStore EXCEPT !["analysisHistory"] =
                                     HList(filteredRecords)]
                 /\ USSTriggerSync(now)
                 /\ log' = Logged(Entry("delete", "uss", NoArg, NoRec, id, "true"))
            ELSE /\ log' = Logged(Entry("delete", "uss", NoArg, NoRec, id, "false"))
                 /\ UNCHANGED <<histStore, trig, trigTimers>>
    /\ UNCHANGED <<localDB, dbHistory, pendingHist, now>>
    /\ UNCHANGED schedVars

\* UnifiedSyncSystem.updateAnalysisRecord(id, updatedData)
USSUpdateAnalysisRecord(id, updatedData, dt) ==
    /\ ops < MaxOps
    /\ ops' = ops + 1
    /\ now' = now + dt
    /\ before' = Hist
    /\ LET recordIndex == UpdateIndex(ParseOrEmpty(Hist), id) IN
       IF ParseThrows(Hist) \/ recordIndex = 0
       THEN /\ log' = Logged(Entry("update", "uss", updatedData, NoRec, id, "null"))
            /\ UNCHANGED <<histStore, trig, trigTimers>>
       ELSE LET updatedRecord ==
                    UpdatedRecord(ParseOrEmpty(Hist)[recordIndex], updatedData, now + dt)
            IN  /\ histStore' = [histStore EXCEPT !["analysisHistory"] =
                       HList([ParseOrEmpty(Hist) EXCEPT ![recordIndex] = updatedRecord])]
                /\ USSTriggerSync(now + dt)
                /\ log' = Logged(Entry("update", "uss", updatedData, updatedRecord, id,
                                       "record"))
    /\ UNCHANGED <<localDB, dbHistory, pendingHist>>
    /\ UNCHANGED schedVars

\* updatedRecord of DBManager.updateAnalysisRecord:
\* { ...historyRecords[recordIndex], ...updatedData, updatedAt }; a field the
\* patch does not have is IdNone (id) or 0
DBMUpdatedRecord(old, updatedData, t) ==
    Rec(IF updatedData.id # IdNone THEN updatedData.id ELSE old.id,
        IF updatedData.timestamp # 0 THEN updatedData.timestamp ELSE old.timestamp,
        IF updatedData.score # 0 THEN updatedData.score ELSE old.score,
        IF updatedData.createdAt # 0 THEN updatedData.createdAt ELSE old.createdAt,
        t)

\* DBManager.updateAnalysisRecord(id, updatedData) without a logged-in
\* apiService: reads analysisHistory, writes the key getUserSpecificKey gives
\* when no currentUser is stored; its own subscribers list is empty
DBMUpdateAnalysisRecord(id, updatedData, dt) ==
    /\ ~apiService
    /\ ops < MaxOps
    /\ ops' = ops + 1
    /\ now' = now + dt
    /\ before' = Hist
    /\ LET recordIndex == UpdateIndex(ParseOrEmpty(Hist), id) IN
       IF ParseThrows(Hist) \/ recordIndex = 0
       THEN /\ log' = Logged(Entry("dbUpdate", "dbm", updatedData, NoRec, id, "null"))
            /\ UNCHANGED histStore
       ELSE LET updatedRecord ==
                    DBMUpdatedRecord(ParseOrEmpty(Hist)[recordIndex], updatedData, now + dt)
            IN  /\ histStore' = [histStore EXCEPT !["analysisHistory_default"] =
                       HList([ParseOrEmpty(Hist) EXCEPT ![recordIndex] = updatedRecord])]
                /\ log' = Logged(Entry("dbUpdate", "dbm", updatedData, updatedRecord, id,
                                       "record"))
    /\ UNCHANGED <<trig, trigTimers, localDB, dbHistory, pendingHist>>
    /\ UNCHANGED schedVars

\* UnifiedSyncManager.getAnalysisHistory(): the stored list parsed and sorted,
\* [] when the key is absent or its value does not parse
USMGetAnalysisHistory(text) ==
    IF ParseThrows(text) THEN <<>> ELSE SortDesc(ParseOrEmpty(text))

\* a call of CoreSyncSystem.getAllAnalysisHistory() (sys = "core") or of
\* UnifiedSyncManager.getAnalysisHistory() (sys = "usm"): the entry's rec is
\* the list the call returns; nothing is written
GetHistoryCall(sys) ==
    /\ ops < MaxOps
    /\ ops' = ops + 1
    /\ before' = Hist
    /\ log' = Logged(Entry("getHistory", sys, NoArg,
                           IF sys = "core" THEN GetAllAnalysisHistory(Hist)
                                           ELSE USMGetAnalysisHistory(Hist),
                           IdNone, "returned"))
    /\ UNCHANGED <<histStore, trig, trigTimers, localDB, dbHistory, pendingHist, now>>
    /\ UNCHANGED schedVars

\* variant of NotifyWith: the time written last in a burst is written to the
\* trigger key (triggerSync writing the last-sync-time before the trigger)
NotifyTriggerLast(t, base, extra) ==
    LET changedP(k) == profStore'[k] # profStore[k]
        changedT(k) == trig'[k] # trig[k]
        changedH(k) == histStore'[k] # histStore[k]
        events == SelectSeq(profileKeys, changedP)
                  \o SelectSeq(<<"core_sync_trigger", "unified_sync_trigger">>, changedT)
                  \o SelectSeq(historyKeys, changedH)
                  \o (IF extra # <<>> THEN <<TriggerKey(syncSystem)>> ELSE <<>>)
    IN  debounce' = [u \in Tabs |->
                        IF u \in open /\ u # t /\ events # <<>>
                        THEN events[Len(events)] ELSE base[u]]

\* the storage events of one task of tab t: every other open tab gets an event
\* for each key whose value changed, in the order the task wrote them (profile
\* keys, trigger keys, history keys); its debounce timer keeps the last one.
\* base: the debounce timers as the task itself leaves them; extra: the
\* last-sync-time key when the task wrote it last (its value is a new time at
\* every write, also where the clock of the model stands still).
NotifyWith(t, base, extra) ==
    LET changedP(k) == profStore'[k] # profStore[k]
        changedT(k) == trig'[k] # trig[k]
        changedH(k) == histStore'[k] # histStore[k]
        events == SelectSeq(profileKeys, changedP)
                  \o SelectSeq(<<"core_sync_trigger", "unified_sync_trigger">>, changedT)
                  \o SelectSeq(historyKeys, changedH)
                  \o extra
    IN  debounce' = [u \in Tabs |->
                        IF u \in open /\ u # t /\ events # <<>>
                        THEN events[Len(events)] ELSE base[u]]

Notify(t, base) == NotifyWith(t, base, <<>>)

\* the setTimeout callback of CoreSyncSystem.triggerSync in tab t
RemoveTrigger(t) ==
    /\ trigTimers[t] > 0
    /\ trigTimers' = [trigTimers EXCEPT ![t] = @ - 1]
    /\ trig' = [trig EXCEPT !["core_sync_trigger"] = 0]
    /\ UNCHANGED <<histStore, profStore, syncTime, cfgVars, dbHistory, isSyncing,
                   isEditingProfile, display, passes, pendingUser, pendingHist, sinceSync,
                   focusThrottle, now, ops, log, before, migr>>
    /\ Notify(t, debounce)

\* CoreSyncSystem.syncAnalysisHistory called by a sync pass or a storage event
CoreSyncAnalysisHistory ==
    /\ ops < MaxOps
    /\ localDB # "none"
    /\ ops' = ops + 1
    /\ StartSyncAnalysisHistory
    /\ UNCHANGED <<histStore, trig, trigTimers, localDB, dbHistory, now, log, before>>
    /\ UNCHANGED schedVars

\* CoreSyncSystem.syncAnalysisHistory after `await localDB.getAllAnalysisHistory()`
\* resolved: the history is written to the analysisHistory key as backup
CoreSyncAnalysisHistoryResolved ==
    /\ syncSystem = "core"
    /\ pendingHist > 0
    /\ pendingHist' = pendingHist - 1
    /\ LET history == LocalDBGetAll(dbHistory) IN
       IF Len(history) > 0
       THEN /\ histStore' = [histStore EXCEPT !["analysisHistory"] =
                                HList(BackupList(history))]
            /\ before' = Hist
            /\ log' = Logged(Entry("backup", "core", NoArg, NoRec, IdNone, "true"))
       ELSE UNCHANGED <<histStore, before, log>>
    /\ UNCHANGED <<trig, trigTimers, localDB, dbHistory, now, ops>>
    /\ UNCHANGED schedVars

\* CoreSyncSystem.syncAnalysisHistory after the localDB promise rejected
CoreSyncAnalysisHistoryRejected ==
    /\ syncSystem = "core"
    /\ pendingHist > 0
    /\ pendingHist' = pendingHist - 1
    /\ UNCHANGED <<histStore, trig, trigTimers, localDB, dbHistory, now, ops, log, before>>
    /\ UNCHANGED schedVars

\* LocalDB.addAnalysisRecord: store.add, no cap
LocalDBAddAnalysisRecord(record) ==
    /\ ops < MaxOps
    /\ localDB = "LocalDB"
    /\ ops' = ops + 1
    /\ dbHistory' = Append(dbHistory,
                       Rec(IdNum(Len(dbHistory) + 1),
                           IF record.timestamp # 0 THEN record.timestamp ELSE now,
                           record.score, now, 0))
    /\ UNCHANGED <<histStore, trig, trigTimers, localDB, pendingHist, now, log, before>>
    /\ UNCHANGED schedVars

\* UnifiedSyncManager.saveAnalysisHistory(history), reached through
\* window.saveAnalysisHistory
USMSaveAnalysisHistory(history) ==
    /\ ops < MaxOps
    /\ ops' = ops + 1
    /\ before' = Hist
    /\ histStore' = [histStore EXCEPT !["analysisHistory"] = HList(USMSavedHistory(history))]
    /\ log' = Logged(Entry("save", "usm", NoArg, NoRec, IdNone, "ok"))
    /\ UNCHANGED <<trig, trigTimers, localDB, dbHistory, pendingHist, now>>
    /\ UNCHANGED schedVars

\* a page with one tab and no profile data, for the history specifications
InitPage ==
    /\ profStore = [k \in ProfileKeySet |-> PAbsent]
    /\ syncTime = [k \in SyncTimeKeys |-> 0]
    /\ dbProfile = PAbsent
    /\ pageSyncFn = FALSE
    /\ apiService = FALSE
    /\ syncSystem = "core"
    /\ open = {ThisTab}
    /\ isSyncing = [t \in Tabs |-> FALSE]
    /\ isEditingProfile = [t \in Tabs |-> FALSE]
    /\ display = [t \in Tabs |-> NoName]
    /\ passes = [t \in Tabs |-> <<>>]
    /\ pendingUser = [t \in Tabs |-> 0]
    /\ debounce = [t \in Tabs |-> NoKey]
    /\ sinceSync = [t \in Tabs |-> 0]
    /\ focusThrottle = [t \in Tabs |-> FALSE]
    /\ migr = MigrNone
    /\ updates = <<>>
    /\ subscribers = [e \in EventNames |-> <<>>]
    /\ window = WindowAtLoad
    /\ initRuns = <<>>
    /\ displayStack = <<>>
    /\ batch = NoBatch
    /\ credentials = NoCredentials

InitHist ==
    /\ InitPage
    /\ \E h \in {HAbsent, HList(BaseList(maxHistoryRecords - 1))} :
          histStore = [k \in HistoryKeys |-> IF k = "analysisHistory" THEN h ELSE HAbsent]
    /\ trig = [k \in TrigKeys |-> 0]
    /\ trigTimers = [t \in Tabs |-> 0]
    /\ localDB \in {"none", "LocalDB"}
    /\ dbHistory = (IF localDB = "none" \/ Hist = HAbsent THEN <<>>
                    ELSE BaseList(maxHistoryRecords + 1))
    /\ pendingHist = 0
    /\ now = T0
    /\ ops = 0
    /\ log = <<>>
    /\ before = HAbsent

NextHist ==
    \/ \E r \in NewRecords, rand \in RandVals, dt \in Elapsed : CoreAddAnalysisRecord(r, rand, dt)
    \/ \E r \in NewRecords, rand \in RandVals, dt \in Elapsed : USSAddAnalysisRecord(r, rand, dt)
    \/ RemoveTrigger(ThisTab)
    \/ CoreSyncAnalysisHistory
    \/ CoreSyncAnalysisHistoryResolved
    \/ CoreSyncAnalysisHistoryRejected
    \/ \E r \in {[timestamp |-> 0, score |-> 60]} : LocalDBAddAnalysisRecord(r)
    \/ \E h \in {LocalDBGetAll(dbHistory)} : USMSaveAnalysisHistory(h)

----------------------------------------------------------------------------
(* Properties of the history list                                          *)

LastOp == log[Len(log)]

\* the number of times record r occurs in list l
Occurrences(l, r) == Cardinality({i \in 1..Len(l) : l[i] = r})

\* the smallest timestamp of a non-empty list
MinTimestamp(l) == CHOOSE m \in {l[i].timestamp : i \in 1..Len(l)} :
                       \A i \in 1..Len(l) : m <= l[i].timestamp

\* C4: after any sequence of coordinator operations the list stored under
\* analysisHistory has at most maxHistoryRecords (100) entries.
C4_HistoryAtMostMax ==
    Hist.tag = "list" => Len(Hist.list) <= maxHistoryRecords

\* the last operation was an addAnalysisRecord that returned, applied to a
\* stored list of exactly 100 records, and nothing wrote the list since
AddedToFullList ==
    /\ Len(log) > 0
    /\ LastOp.op = "add"
    /\ LastOp.ret = "ok"
    /\ before.tag = "list"
    /\ Len(before.list) = maxHistoryRecords

\* C5: addAnalysisRecord on a stored list of exactly 100 records leaves 100
\* records, the new record among them, and the one record that is gone has the
\* smallest timestamp of the records that were stored.
C5_FullListDropsOldest ==
    AddedToFullList =>
        /\ Len(Hist.list) = maxHistoryRecords
        /\ Occurrences(Hist.list, LastOp.rec) >= 1
        /\ \E k \in 1..Len(before.list) :
              /\ before.list[k].timestamp = MinTimestamp(before.list)
              /\ Occurrences(Hist.list, before.list[k]) <
                     Occurrences(<<LastOp.rec>> \o before.list, before.list[k])

\* the last two operations were addAnalysisRecord calls that returned, made
\* without a caller-supplied timestamp, and nothing wrote the list in between
\* or since
TwoAddsNoTimestamp ==
    /\ Len(log) = 2
    /\ \A i \in 1..2 : /\ log[i].op = "add"
                       /\ log[i].ret = "ok"
                       /\ log[i].arg.timestamp = 0
    /\ log[1].rec.createdAt <= log[2].rec.createdAt

AddedRecord ==
    /\ Len(log) > 0
    /\ LastOp.op = "add"
    /\ LastOp.ret = "ok"

\* C22: addAnalysisRecord keeps the id and the timestamp the caller supplied,
\* generates each of them only when the caller supplied none, and returns the
\* record stored at the head of the list.
C22_AddKeepsSuppliedIdAndTimestamp ==
    AddedRecord =>
        /\ LastOp.arg.id # IdNone => LastOp.rec.id = LastOp.arg.id
        /\ LastOp.arg.timestamp # 0 => LastOp.rec.timestamp = LastOp.arg.timestamp
        /\ LastOp.arg.id = IdNone => LastOp.rec.id # IdNone
        /\ LastOp.arg.timestamp = 0 => LastOp.rec.timestamp = now
        /\ Hist.tag = "list"
        /\ Len(Hist.list) > 0
        /\ Hist.list[1] = LastOp.rec

\* the last operation was a history operation that left a list in the store
HistoryOperationDone ==
    /\ Len(log) > 0
    /\ LastOp.op \in {"add", "update", "delete"}
    /\ Hist.tag = "list"

\* C27: after every history operation (add with or without a caller-supplied
\* timestamp, update, delete) the list stored under analysisHistory is ordered
\* by non-increasing timestamp.
C27_PersistedListSortedNewestFirst == HistoryOperationDone => IsSortedDesc(Hist.list)

SpecHist == InitHist /\ [][NextHist]_vars

----------------------------------------------------------------------------
(* Specification of the operations that address a record by id             *)

InitDel ==
    /\ InitPage
    /\ \E h \in {HAbsent, HCorrupt, HList(BaseList(2)), HList(BaseList(4))} :
          histStore = [k \in HistoryKeys |-> IF k = "analysisHistory" THEN h ELSE HAbsent]
    /\ trig = [k \in TrigKeys |-> 0]
    /\ trigTimers = [t \in Tabs |-> 0]
    /\ localDB \in {"none", "LocalDB"}
    /\ dbHistory = <<>>
    /\ pendingHist = 0
    /\ now = T0
    /\ ops = 0
    /\ log = <<>>
    /\ before = HAbsent

\* what a caller passes to updateAnalysisRecord: a new score, a new timestamp
Patches == {[timestamp |-> 0, score |-> 75], [timestamp |-> 450, score |-> 0]}

\* what a caller passes to DBManager.updateAnalysisRecord: a new score, a
\* record object with its own id, one with its own createdAt
DBMPatches ==
    {[id |-> IdNone, createdAt |-> 0, timestamp |-> 0, score |-> 75],
     [id |-> IdNum(7), createdAt |-> 0, timestamp |-> 0, score |-> 75],
     [id |-> IdNone, createdAt |-> OldTs, timestamp |-> 0, score |-> 75]}

NextDel ==
    \/ \E id \in DeleteArgs : CoreDeleteAnalysisRecord(id)
    \/ \E id \in DeleteArgs : USSDeleteAnalysisRecord(id)
    \/ \E id \in DeleteArgs, patch \in Patches, dt \in Elapsed :
          USSUpdateAnalysisRecord(id, patch, dt)
    \/ RemoveTrigger(ThisTab)
    \/ CoreSyncAnalysisHistoryResolved
    \/ CoreSyncAnalysisHistoryRejected
    \/ \E sys \in {"core", "usm"} : GetHistoryCall(sys)
    \/ \E id \in DeleteArgs, patch \in DBMPatches, dt \in Elapsed :
          DBMUpdateAnalysisRecord(id, patch, dt)

\* the value an id denotes: a number n and the string of its decimal digits
\* denote the same value
Denotes(id) == IF id.t = "number" THEN NumToStr(id.n) ELSE id.s

SameValue(rid, id) == rid.t # "undefined" /\ Denotes(rid) = Denotes(id)

\* the last operation was a deleteAnalysisRecord that read a stored list
DeletedFromList ==
    /\ Len(log) > 0
    /\ LastOp.op = "delete"
    /\ before.tag = "list"

\* C6: deleteAnalysisRecord(id) removes every stored record whose id is id or
\* the same value in the other type, and keeps every record whose id denotes
\* a different value.
C6_DeleteRemovesSameValueOnly ==
    DeletedFromList =>
        LET same(r) == ~SameValue(r.id, LastOp.id) IN
        Hist = HList(SelectSeq(before.list, same))

\* the last operation was an updateAnalysisRecord on a stored list that holds
\* a record whose id equals the id argument under ==
UpdatedStoredRecord ==
    /\ Len(log) > 0
    /\ LastOp.op = "update"
    /\ before.tag = "list"
    /\ \E k \in 1..Len(before.list) : LooseEq(before.list[k].id, LastOp.id)

\* C14: updateAnalysisRecord(id, patch) on a stored record matched by ==
\* puts at the position of that record the old record with the fields of the
\* patch laid over it and updatedAt set to the time of the call, returns the
\* record it stored, and leaves the length of the list and every other
\* record as they were.
C14_UpdateReplacesInPlace ==
    UpdatedStoredRecord =>
        /\ LastOp.ret = "record"
        /\ Hist.tag = "list"
        /\ Len(Hist.list) = Len(before.list)
        /\ \E k \in 1..Len(before.list) :
              /\ LooseEq(before.list[k].id, LastOp.id)
              /\ Hist.list[k] = LastOp.rec
              /\ Hist.list[k].id = before.list[k].id
              /\ Hist.list[k].createdAt = before.list[k].createdAt
              /\ Hist.list[k].timestamp = (IF LastOp.arg.timestamp # 0
                                           THEN LastOp.arg.timestamp
                                           ELSE before.list[k].timestamp)
              /\ Hist.list[k].score = (IF LastOp.arg.score # 0 THEN LastOp.arg.score
                                       ELSE before.list[k].score)
              /\ Hist.list[k].updatedAt = now
              /\ \A j \in 1..Len(before.list) : j # k => Hist.list[j] = before.list[j]

\* C14 witness: the record with id "42" of a list of four was updated through
\* the number 42 with a new score
C14_Witness ==
    /\ UpdatedStoredRecord
    /\ LastOp.id = IdNum(42)
    /\ LastOp.arg.score = 75
    /\ Len(Hist.list) = 4
    /\ Hist.list[2].id = IdStr(<<"4", "2">>)
    /\ Hist.list[2].score = 75
    /\ Hist.list[2].updatedAt > T0

\* id matches record id rid under none of the rules the operations use: ===,
\* ==, parseInt of a string id, toString of a number id
MatchesNo(rid, id) ==
    /\ ~LooseEq(rid, id)
    /\ ~(rid.t = "number" /\ id.t = "string" /\ rid.n = ParseInt(id.s))
    /\ ~(rid.t = "string" /\ id.t = "number" /\ rid.s = NumToStr(id.n))

\* the last operation was an update or a delete, on a stored value that
\* parses, with an id that matches no stored record
TargetMissing ==
    /\ Len(log) > 0
    /\ LastOp.op \in {"update", "delete"}
    /\ before.tag # "corrupt"
    /\ \A k \in 1..Len(before.list) : MatchesNo(before.list[k].id, LastOp.id)

HistoryRead == Len(log) > 0 /\ LastOp.op = "getHistory"

\* C26: getAllAnalysisHistory() / getAnalysisHistory() returns exactly the
\* stored records (each as often as it is stored), ordered by non-increasing
\* timestamp, and the empty list when the key is absent or holds invalid JSON.
C26_HistoryReadSortedNewestFirst ==
    HistoryRead =>
        /\ IsSortedDesc(LastOp.rec)
        /\ Hist.tag = "list" =>
              /\ Len(LastOp.rec) = Len(Hist.list)
              /\ \A i \in 1..Len(Hist.list) :
                    Occurrences(LastOp.rec, Hist.list[i]) =
                        Occurrences(Hist.list, Hist.list[i])
        /\ Hist.tag # "list" => LastOp.rec = <<>>

\* a read of a stored list that is out of order returned it in order
C26_Witness ==
    /\ HistoryRead
    /\ Hist.tag = "list"
    /\ Len(Hist.list) = 4
    /\ ~IsSortedDesc(Hist.list)
    /\ LastOp.rec # Hist.list

\* the last operation was a DBManager.updateAnalysisRecord that found the
\* record and wrote the list
DBMUpdated ==
    /\ Len(log) > 0
    /\ LastOp.op = "dbUpdate"
    /\ LastOp.ret = "record"

\* C29: DBManager.updateAnalysisRecord (local path) writes a list in which
\* every record has the id and the createdAt of the record at its place in the
\* list it read, whatever fields the patch has.
C29_DBMUpdateKeepsIdAndCreatedAt ==
    DBMUpdated =>
        LET written == histStore["analysisHistory_default"].list IN
        /\ Len(written) = Len(before.list)
        /\ \A k \in 1..Len(written) :
              /\ written[k].id = before.list[k].id
              /\ written[k].createdAt = before.list[k].createdAt

SpecDel == InitDel /\ [][NextDel]_vars

----------------------------------------------------------------------------
(* Profile operations                                                      *)

Names == {"Alice", "Bob"}

\* profiles a caller passes to saveUserProfile / saveProfile
NewProfiles ==
    {Profile(Undef, "Alice", Undef, 0), Profile("u7", "Bob", "bob@example.com", OldTs)}

\* storageKeys.profile of the running coordinator
Canonical == ProfileKey(syncSystem)

\* handleCoreProfileUpdate: the coreProfileUpdated listener shows the profile
\* of the event
HandleCoreProfileUpdate(shown, profile) ==
    IF profile.tag # "absent" THEN CoreDisplayAfter(shown, profile) ELSE shown

\* the body of CoreSyncSystem.saveUserProfile in tab t on profile store
\* `store`, when secureStorage.setItem returned true
CoreSaved(t, store, profile, time) ==
    LET userData == PObj(CoreUserData(profile, time))
        shown == IF ~isEditingProfile[t] THEN CoreDisplayAfter(display[t], userData)
                 ELSE display[t]
    IN  /\ profStore' = CoreSavedStore(store, profile, time)
        /\ CoreTriggerSyncIn(t, time)
        /\ display' = [display EXCEPT ![t] = HandleCoreProfileUpdate(shown, userData)]

\* UnifiedSyncManager.triggerSync(): the trigger key and the last-sync-time
\* key are written, no removal is scheduled
USMTriggerSync(time) ==
    /\ trig' = [trig EXCEPT !["unified_sync_trigger"] = time]
    /\ syncTime' = [syncTime EXCEPT !["unified_last_sync_time"] = time]
    /\ UNCHANGED trigTimers

\* the body of UnifiedSyncManager.saveProfile with its triggerSync, when
\* secureStorage.setItem returned true
USMSaved(store, profile, time) ==
    /\ profStore' = USMSavedStore(store, profile, time)
    /\ USMTriggerSync(time)

\* CoreSyncSystem.saveUserProfile(profile) called in tab t; saved is what
\* secureStorage.setItem returns
CoreSaveUserProfile(t, profile, saved, dt) ==
    /\ ops < MaxOps
    /\ t \in open
    /\ syncSystem = "core"
    /\ ops' = ops + 1
    /\ now' = now + dt
    /\ migr' = MigrNone
    /\ UNCHANGED <<histStore, syncTime, cfgVars, dbHistory, isSyncing, isEditingProfile,
                   passes, pendingUser, pendingHist, sinceSync, focusThrottle, before>>
    /\ IF saved
       THEN /\ CoreSaved(t, profStore, profile, now + dt)
            /\ log' = Logged(Entry("saveUserProfile", "core", profile,
                                   CoreUserData(profile, now + dt), IdNone, "ok"))
            /\ Notify(t, debounce)
       ELSE /\ log' = Logged(Entry("saveUserProfile", "core", profile, NoProfile,
                                   IdNone, "throws"))
            /\ UNCHANGED <<profStore, trig, trigTimers, display, debounce>>

\* UnifiedSyncManager.saveProfile(profile) called in tab t; saved is what
\* secureStorage.setItem returns for the two profile keys.  The return value
\* is not looked at: when the profile was not stored the call goes on to
\* triggerSync, whose two short writes may (signalled) or may not succeed, and
\* returns profileToSave.
USMSaveProfile(t, profile, saved, dt) ==
    /\ ops < MaxOps
    /\ t \in open
    /\ syncSystem = "usm"
    /\ ops' = ops + 1
    /\ now' = now + dt
    /\ migr' = MigrNone
    /\ UNCHANGED <<histStore, cfgVars, dbHistory, isSyncing, isEditingProfile, passes,
                   pendingUser, pendingHist, sinceSync, focusThrottle, before, display>>
    /\ IF saved
       THEN /\ USMSaved(profStore, profile, now + dt)
            /\ log' = Logged(Entry("saveProfile", "usm", profile,
                                   USMProfileToSave(profile, now + dt), IdNone, "ok"))
       ELSE /\ UNCHANGED profStore
            /\ \E signalled \in BOOLEAN :
                  IF signalled THEN USMTriggerSync(now + dt)
                  ELSE UNCHANGED <<trig, trigTimers, syncTime>>
            /\ log' = Logged(Entry("saveProfile", "usm", profile,
                                   USMProfileToSave(profile, now + dt), IdNone,
                                   "returned unsaved"))
    /\ NotifyWith(t, debounce,
                  IF syncTime' # syncTime THEN <<LastSyncKey("usm")>> ELSE <<>>)

\* migrateAllData() run in tab t; saved: whether localStorage.setItem works
\* during the run
MigrateAllData(t, saved) ==
    /\ ops < MaxOps
    /\ t \in open
    /\ ops' = ops + 1
    /\ UNCHANGED <<cfgVars, dbHistory, isSyncing, isEditingProfile, passes, pendingUser,
                   pendingHist, sinceSync, focusThrottle, before, now>>
    /\ LET mp == MigrateProfile(profStore, profileKeys, syncSystem, now, saved) IN
       IF mp.migrated.tag = "obj" /\ syncSystem = "core"
       THEN /\ profStore' = mp.store
            /\ CoreTriggerSyncIn(t, now)
            /\ UNCHANGED syncTime
            /\ display' = [display EXCEPT ![t] =
                   HandleCoreProfileUpdate(
                       IF ~isEditingProfile[t]
                       THEN CoreDisplayAfter(display[t], mp.migrated) ELSE display[t],
                       mp.migrated)]
       ELSE IF mp.migrated.tag = "obj"
       THEN /\ profStore' = mp.store
            /\ USMTriggerSync(now)
            /\ UNCHANGED display
       ELSE /\ profStore' = mp.store
            /\ UNCHANGED <<trig, trigTimers, syncTime, display>>
    /\ histStore' = MigrateHistory(histStore, historyKeys, syncSystem, now, saved)
    /\ migr' = [runs |-> Min(migr.runs + 1, 2),
                ok |-> saved /\ (migr.runs = 0 \/ migr.ok),
                profile |-> CanonicalProfile(profStore, syncSystem),
                history |-> Hist]
    /\ log' = Logged(Entry("migrateAllData", syncSystem, NoProfile, NoProfile, IdNone,
                           IF saved THEN "ok" ELSE "storage full"))
    /\ Notify(t, debounce)

\* stored profiles the profile specification starts from
StoredBob == PObj(Profile("currentUser", "Bob", Undef, OldTs))
StoredCarol == PObj(Profile(Undef, "Carol", "carol@example.com", 0))
StoredDave == PObj(Profile("u9", "Dave", Undef, OldTs))

\* a legacy history list whose records have no id and no createdAt
LegacyList == <<Rec(IdNone, 300, 70, 0, 0), Rec(IdNum(7), 200, 40, 200, 0)>>

InitStore ==
    /\ \E a \in {PAbsent, PCorrupt, PScalar, StoredCarol},
          b \in {PAbsent, StoredDave},
          u \in {PAbsent, StoredDave},
          c \in {PAbsent, PCorrupt, StoredBob} :
          profStore = [k \in ProfileKeySet |->
                          IF k = "userProfileData" THEN a
                          ELSE IF k = "currentUser" THEN b
                          ELSE IF k = "unified_user_profile" THEN u
                          ELSE IF k = "core_user_profile" THEN c
                          ELSE PAbsent]
    /\ \E h \in {HAbsent, HCorrupt, HList(<<>>), HList(BaseList(2))},
          l \in {HAbsent, HList(LegacyList)} :
          histStore = [k \in HistoryKeys |->
                          IF k = "analysisHistory" THEN h
                          ELSE IF k = "historyRecords" THEN l ELSE HAbsent]
    /\ syncSystem \in {"core", "usm"}
    /\ trig = [k \in TrigKeys |-> 0]
    /\ trigTimers = [t \in Tabs |-> 0]
    /\ syncTime = [k \in SyncTimeKeys |-> 0]
    /\ localDB = "none"
    /\ dbHistory = <<>>
    /\ dbProfile = PAbsent
    /\ pageSyncFn = FALSE
    /\ apiService = FALSE
    /\ open = {ThisTab}
    /\ isSyncing = [t \in Tabs |-> FALSE]
    /\ isEditingProfile = [t \in Tabs |-> FALSE]
    /\ display = [t \in Tabs |-> NoName]
    /\ passes = [t \in Tabs |-> <<>>]
    /\ pendingUser = [t \in Tabs |-> 0]
    /\ pendingHist = 0
    /\ debounce = [t \in Tabs |-> NoKey]
    /\ sinceSync = [t \in Tabs |-> 0]
    /\ focusThrottle = [t \in Tabs |-> FALSE]
    /\ now = T0
    /\ ops = 0
    /\ log = <<>>
    /\ before = HAbsent
    /\ migr = MigrNone
    /\ updates = <<>>
    /\ subscribers = [e \in EventNames |-> <<>>]
    /\ window = WindowAtLoad
    /\ initRuns = <<>>
    /\ displayStack = <<>>
    /\ batch = NoBatch
    /\ credentials = NoCredentials

NextStore ==
    \/ \E p \in NewProfiles, saved \in BOOLEAN, dt \in Elapsed :
          CoreSaveUserProfile(ThisTab, p, saved, dt)
    \/ \E p \in NewProfiles, saved \in BOOLEAN, dt \in Elapsed :
          USMSaveProfile(ThisTab, p, saved, dt)
    \/ \E saved \in BOOLEAN : MigrateAllData(ThisTab, saved)
    \/ RemoveTrigger(ThisTab)

\* the last operation was a CoreSyncSystem.saveUserProfile that returned
SavedUserProfile ==
    /\ Len(log) > 0
    /\ LastOp.op = "saveUserProfile"
    /\ LastOp.ret = "ok"

\* C3: after a saveUserProfile(P) that succeeds, getUserProfile() returns an
\* object equal to P on every field the caller supplied, with updatedAt no
\* earlier than the time of the call, whatever the keys held before.
C3_SaveThenGetReturnsProfile ==
    SavedUserProfile =>
        LET got == CoreGetUserProfile(profStore)
            P == LastOp.arg
        IN  /\ got.tag = "obj"
            /\ P.id # Undef => got.obj.id = P.id
            /\ P.fullname # Undef => got.obj.fullname = P.fullname
            /\ P.email # Undef => got.obj.email = P.email
            /\ got.obj.updatedAt >= now

\* C3 witness: a save of a profile that brings its own id, over legacy keys
\* that hold other profiles
C3_Witness ==
    /\ SavedUserProfile
    /\ LastOp.arg.id = "u7"
    /\ profStore["userProfileData"] = StoredCarol
    /\ profStore["currentUser"] = StoredDave
    /\ CoreGetUserProfile(profStore).obj.fullname = "Bob"

\* C9: two migrateAllData runs in a row leave the canonical profile (updatedAt
\* aside) and the analysisHistory list as the first run left them.
C9_MigrationIdempotent ==
    (migr.runs = 2 /\ migr.ok) =>
        /\ CanonicalProfile(profStore, syncSystem) = migr.profile
        /\ Hist = migr.history

\* C9 witness: a second run after a first run that migrated a legacy profile
\* and a legacy history list
C9_Witness ==
    /\ migr.runs = 2
    /\ migr.ok
    /\ migr.profile.tag = "obj"
    /\ migr.profile.obj.fullname = "Carol"
    /\ Hist.tag = "list"
    /\ Len(Hist.list) = Len(LegacyList)
    /\ Hist.list[1].id # IdNone

\* the fields of a stored profile that a caller supplied (id and updatedAt
\* are set by the save)
SuppliedFields(stored) == [fullname |-> stored.obj.fullname, email |-> stored.obj.email]

\* C39: when the canonical key held a profile object before a migrateAllData
\* run, it holds a profile with the same caller-supplied fields after the
\* run in which localStorage.setItem works, whatever the legacy keys hold.
C39_MigrationKeepsCanonicalProfile ==
    (migr.runs > 0 /\ migr.ok /\ migr.profile.tag = "obj") =>
        /\ profStore[Canonical].tag = "obj"
        /\ SuppliedFields(profStore[Canonical]) = SuppliedFields(migr.profile)

\* the step is a saveUserProfile / saveProfile call during which the write of
\* the profile failed (every call of SpecStore adds its entry to the log)
SaveWriteFailed ==
    /\ ops' = ops + 1
    /\ log'[Len(log')].op \in {"saveUserProfile", "saveProfile"}
    /\ log'[Len(log')].ret # "ok"

\* C12: a saveUserProfile / saveProfile call whose store write fails throws
\* instead of returning a profile, and writes no sync trigger, leaves the
\* display as it is (also through the profile-updated event) and stores nothing.
C12_FailedSaveThrows ==
    [][SaveWriteFailed =>
          /\ log'[Len(log')].ret = "throws"
          /\ log'[Len(log')].rec = NoProfile
          /\ trig' = trig
          /\ trigTimers' = trigTimers
          /\ display' = display
          /\ profStore' = profStore]_vars

\* the step is a saveUserProfile / saveProfile call that stored the profile
SaveSucceeded ==
    /\ ops' = ops + 1
    /\ log'[Len(log')].op \in {"saveUserProfile", "saveProfile"}
    /\ log'[Len(log')].ret = "ok"

\* C23: a successful saveUserProfile / saveProfile writes the trigger key of
\* its coordinator with the time of the call and the same-tab listeners of
\* the profile-updated event have been handed the saved profile when it
\* returns: the display, which the coordinator's own listener and (edit mode
\* being off) the save itself refresh, shows the saved name.
C23_SaveSignalsAndBroadcasts ==
    [][SaveSucceeded =>
          /\ trig'[TriggerKey(syncSystem)] = now'
          /\ ~isEditingProfile[ThisTab] =>
                display'[ThisTab] = log'[Len(log')].rec.fullname]_vars

SpecStore == InitStore /\ [][NextStore]_vars

----------------------------------------------------------------------------
(* Reading the profile, and the startup initialization                     *)

\* profileData of UnifiedSyncSystem.getUserProfile: the canonical key, else
\* userProfileData || ultimate_user_profile
USSProfileData(store) ==
    IF store["unified_user_profile"].tag # "absent" THEN store["unified_user_profile"]
    ELSE IF store["userProfileData"].tag # "absent" THEN store["userProfileData"]
    ELSE store["ultimate_user_profile"]

\* whether UnifiedSyncSystem.getUserProfile copies what it read to the
\* canonical key: the text parsed and is not the text of the canonical key
USSMigratesOnRead(store) ==
    /\ USSProfileData(store).tag \in {"obj", "scalar"}
    /\ store["unified_user_profile"] # USSProfileData(store)

\* what UnifiedSyncSystem.getUserProfile returns (tag "absent" stands for
\* null); written: whether localStorage.setItem works.  A parse error and a
\* write that throws end in the catch, which returns null.
USSGetUserProfile(store, written) ==
    IF USSProfileData(store).tag \in {"absent", "corrupt"} THEN PAbsent
    ELSE IF USSMigratesOnRead(store) /\ ~written THEN PAbsent
    ELSE USSProfileData(store)

\* the store after UnifiedSyncSystem.getUserProfile
USSGetUserProfileStore(store, written) ==
    IF USSMigratesOnRead(store) /\ written
    THEN [store EXCEPT !["unified_user_profile"] = USSProfileData(store)]
    ELSE store

\* how a returned value is logged
Returned(value) == IF value.tag = "absent" THEN "null" ELSE value.tag

\* what a read of the profile leaves alone
readFrame == <<histStore, trig, trigTimers, syncTime, cfgVars, dbHistory, isSyncing,
               isEditingProfile, display, passes, pendingUser, pendingHist, sinceSync,
               focusThrottle, now, before, migr>>

\* coreSyncSystem.getUserProfile() called in tab t
CoreGetUserProfileCall(t) ==
    /\ ops < MaxOps
    /\ t \in open
    /\ syncSystem = "core"
    /\ ops' = ops + 1
    /\ profStore' = CoreGetUserProfileStore(profStore)
    /\ log' = Logged(Entry("getUserProfile", "core", NoProfile,
                           CoreGetUserProfile(profStore).obj, IdNone,
                           Returned(CoreGetUserProfile(profStore))))
    /\ UNCHANGED readFrame
    /\ Notify(t, debounce)

\* unifiedSyncSystem.getUserProfile() called in tab t
USSGetUserProfileCall(t, written) ==
    /\ ops < MaxOps
    /\ t \in open
    /\ ops' = ops + 1
    /\ profStore' = USSGetUserProfileStore(profStore, written)
    /\ log' = Logged(Entry("getUserProfile", "uss", NoProfile,
                           USSGetUserProfile(profStore, written).obj, IdNone,
                           IF USSMigratesOnRead(profStore) /\ ~written THEN "caught"
                           ELSE Returned(USSGetUserProfile(profStore, written))))
    /\ UNCHANGED readFrame
    /\ Notify(t, debounce)

\* the profile keys among the legacyKeys of disableLegacySyncSystems
DisabledProfileKeys == {"core_user_profile", "ultimate_user_profile"}

\* the profile store after disableLegacySyncSystems: each of its keys that
\* holds something is removed
DisableLegacyStore(store) ==
    [k \in DOMAIN store |-> IF k \in DisabledProfileKeys THEN PAbsent ELSE store[k]]

\* initUnifiedSyncSystem() run in tab t: disableLegacySyncSystems removes its
\* keys (the two trigger keys among them) and clears window.coreSyncSystem,
\* loadUnifiedSyncManager starts UnifiedSyncManager, whose first pass records
\* the sync time, and migrateAllData runs with UnifiedSyncManager.  saved:
\* whether localStorage.setItem works during the migration.
InitUnifiedSyncSystem(t, saved) ==
    /\ ops < MaxOps
    /\ t \in open
    /\ ops' = ops + 1
    /\ syncSystem' = "usm"
    /\ UNCHANGED <<localDB, dbProfile, pageSyncFn, apiService, open, dbHistory, isSyncing,
                   isEditingProfile, display, passes, pendingUser, pendingHist, sinceSync,
                   focusThrottle, before, now, trigTimers, updates, subscribers>>
    /\ UNCHANGED extVars
    /\ window' = [window EXCEPT !.unifiedSyncInitialized = TRUE,
                                !.unifiedSyncManager = "manager",
                                !.coreSyncSystem = "null"]
    /\ LET mp == MigrateProfile(DisableLegacyStore(profStore), profileKeys, "usm", now,
                                saved)
       IN  /\ profStore' = mp.store
           /\ trig' = [k \in TrigKeys |->
                          IF k = "unified_sync_trigger" /\ mp.migrated.tag = "obj"
                          THEN now ELSE 0]
           /\ syncTime' = [syncTime EXCEPT !["unified_last_sync_time"] = now]
    /\ histStore' = MigrateHistory(histStore, historyKeys, "usm", now, saved)
    /\ migr' = [runs |-> Min(migr.runs + 1, 2),
                ok |-> saved /\ (migr.runs = 0 \/ migr.ok),
                profile |-> CanonicalProfile(DisableLegacyStore(profStore), "usm"),
                history |-> Hist]
    /\ log' = Logged(Entry("initUnifiedSyncSystem", "usm", NoProfile, NoProfile, IdNone,
                           IF saved THEN "ok" ELSE "storage full"))
    /\ NotifyWith(t, debounce, <<LastSyncKey("usm")>>)

NextRead ==
    \/ CoreGetUserProfileCall(ThisTab)
    \/ \E written \in BOOLEAN : USSGetUserProfileCall(ThisTab, written)
    \/ \E saved \in BOOLEAN : InitUnifiedSyncSystem(ThisTab, saved)

SpecRead == InitStore /\ [][NextRead]_vars

\* the step is a call of op by coordinator sys
CallOf(op, sys) ==
    /\ ops' = ops + 1
    /\ log'[Len(log')].op = op
    /\ log'[Len(log')].sys = sys

\* the key a getUserProfile of CoreSyncSystem takes its text from: the
\* canonical key when it holds something, else the first of userProfileData,
\* unified_user_profile, ultimate_user_profile, currentUser that does
CoreKeyRead ==
    IF profStore["core_user_profile"].tag # "absent" THEN "core_user_profile"
    ELSE IF profStore["userProfileData"].tag # "absent" THEN "userProfileData"
    ELSE IF profStore["unified_user_profile"].tag # "absent" THEN "unified_user_profile"
    ELSE IF profStore["ultimate_user_profile"].tag # "absent" THEN "ultimate_user_profile"
    ELSE IF profStore["currentUser"].tag # "absent" THEN "currentUser"
    ELSE NoKey

\* the step returns the stored value v
Returns(v) ==
    /\ log'[Len(log')].ret = (IF v.tag = "absent" THEN "null" ELSE v.tag)
    /\ log'[Len(log')].rec = v.obj

\* C16: when every stored value is valid JSON, CoreSyncSystem.getUserProfile
\* returns the value of the canonical key when that key holds something, else
\* the value of the first key of userProfileData, unified_user_profile,
\* ultimate_user_profile, currentUser that holds something, and null exactly
\* when all these keys are empty.
C16_CoreReadsCanonicalThenLegacyOrder ==
    [][(CallOf("getUserProfile", "core")
        /\ \A k \in ProfileKeySet : profStore[k].tag # "corrupt")
       => /\ CoreKeyRead # NoKey => Returns(profStore[CoreKeyRead])
          /\ CoreKeyRead = NoKey => Returns(PAbsent)
          /\ log'[Len(log')].ret = "null" <=> CoreKeyRead = NoKey]_vars

\* C16 witness: with the canonical key empty and both userProfileData and
\* unified_user_profile holding a profile, the call returned the profile of
\* userProfileData
C16_Witness ==
    /\ Len(log) > 0
    /\ LastOp.op = "getUserProfile"
    /\ LastOp.sys = "core"
    /\ profStore["core_user_profile"] = PAbsent
    /\ profStore["userProfileData"] = StoredCarol
    /\ profStore["unified_user_profile"] = StoredDave
    /\ LastOp.ret = "obj"
    /\ LastOp.rec = StoredCarol.obj

\* the legacy keys a coordinator's getUserProfile looks at
LegacyKeysOf(sys) ==
    IF sys = "core"
    THEN {"userProfileData", "unified_user_profile", "ultimate_user_profile", "currentUser"}
    ELSE {"userProfileData", "ultimate_user_profile"}

\* the step is a getUserProfile of sys on a store of valid JSON whose
\* canonical key is empty while legacy key k holds a profile, and no write
\* of the call was refused
ReadsLegacy(sys, k) ==
    /\ CallOf("getUserProfile", sys)
    /\ log'[Len(log')].ret # "caught"
    /\ \A j \in ProfileKeySet : profStore[j].tag # "corrupt"
    /\ profStore[ProfileKey(sys)].tag = "absent"
    /\ k \in LegacyKeysOf(sys)
    /\ profStore[k].tag = "obj"

\* C17: when the canonical key is empty and a legacy key holds a profile,
\* getUserProfile (CoreSyncSystem, UnifiedSyncSystem) returns a profile,
\* afterwards the canonical key holds what was returned, and the legacy keys
\* hold what they held.
C17_ReadMigratesToCanonical ==
    [][\A sys \in {"core", "uss"} : \A k \in ProfileKeySet :
          ReadsLegacy(sys, k) =>
              /\ log'[Len(log')].ret = "obj"
              /\ profStore'[ProfileKey(sys)] = PObj(log'[Len(log')].rec)
              /\ \A j \in LegacyKeysOf(sys) : profStore'[j] = profStore[j]]_vars

\* C18: when CoreSyncSystem.getUserProfile reads text that is not valid JSON,
\* under the canonical key or under a legacy key, it returns null and the key
\* the text was read from is empty afterwards.
C18_CorruptKeyCleared ==
    [][(CallOf("getUserProfile", "core")
        /\ CoreKeyRead # NoKey
        /\ profStore[CoreKeyRead].tag = "corrupt")
       => /\ log'[Len(log')].ret = "null"
          /\ profStore'[CoreKeyRead].tag = "absent"]_vars

\* the profile keys of earlier coordinators
SupersededProfileKeys == ProfileKeySet \ {"unified_user_profile"}

\* C19: initUnifiedSyncSystem (disableLegacySyncSystems, then migrateAllData)
\* leaves every superseded profile key that holds a parseable profile with
\* the value it had.
C19_StartupKeepsSupersededKeys ==
    [][CallOf("initUnifiedSyncSystem", "usm")
       => \A k \in SupersededProfileKeys :
             profStore[k].tag = "obj" => profStore'[k] = profStore[k]]_vars

----------------------------------------------------------------------------
(* The sync trigger of the profile saves                                   *)

NextTrig ==
    \/ \E p \in NewProfiles, saved \in BOOLEAN, dt \in Elapsed :
          CoreSaveUserProfile(ThisTab, p, saved, dt)
    \/ \E p \in NewProfiles, saved \in BOOLEAN, dt \in Elapsed :
          USMSaveProfile(ThisTab, p, saved, dt)
    \/ RemoveTrigger(ThisTab)

\* a timer set by setTimeout fires
TrigFairness == WF_vars(RemoveTrigger(ThisTab))

SpecTrig == InitStore /\ [][NextTrig]_vars /\ TrigFairness

\* C20: after a triggerSync of CoreSyncSystem or of UnifiedSyncManager the
\* trigger key it wrote is removed again: a trigger key that is present is
\* eventually absent.
C20_TriggerEventuallyRemoved ==
    \A k \in TrigKeys : (trig[k] # 0) ~> (trig[k] = 0)

----------------------------------------------------------------------------
(* initUnifiedSyncSystem step by step                                      *)

\* a value of window.unifiedSyncManager / window.coreSyncSystem in a condition
Truthy(system) == system \notin {"undefined", "null"}

\* window.unifiedSyncManager || window.coreSyncSystem
ManagerOrCore(w) ==
    IF Truthy(w.unifiedSyncManager) THEN w.unifiedSyncManager ELSE w.coreSyncSystem

\* the catch block with the flag left as it was (variant)
InitializedAfterFailureKept(w) == w.unifiedSyncInitialized

\* the catch block: `window.unifiedSyncInitialized = true` also after a failure
InitializedAfterFailure(w) == TRUE

\* window after the catch and finally blocks: the backup system is installed
\* under both names when neither holds a system
WindowAfterFailure(w) ==
    LET none == ~Truthy(w.unifiedSyncManager) /\ ~Truthy(w.coreSyncSystem) IN
    [unifiedSyncInitialized |-> InitializedAfterFailure(w),
     coreSyncInitInProgress |-> FALSE,
     unifiedSyncManager |-> IF none THEN "backup" ELSE w.unifiedSyncManager,
     coreSyncSystem |-> IF none THEN "backup" ELSE w.coreSyncSystem]

\* one returned initUnifiedSyncSystem call: why it ended and what it returned
InitEntry(why, returned) ==
    Entry("initUnifiedSyncSystem", "usm", why, NoProfile, IdNone, returned)

initFrame == <<syncTime, localDB, dbHistory, dbProfile, pageSyncFn, apiService, open,
               isSyncing, isEditingProfile, display, passes, pendingUser, pendingHist,
               sinceSync, focusThrottle, now, before, trigTimers, updates, subscribers,
               displayStack,
               batch,
               credentials>>

\* core_sync_system.js runs in the page: window.coreSyncSystem = new CoreSyncSystem()
CoreScriptRuns ==
    /\ window = WindowAtLoad
    /\ initRuns = <<>>
    /\ window' = [window EXCEPT !.coreSyncSystem = "core"]
    /\ UNCHANGED <<histStore, profStore, trig, syncSystem, migr, ops, log, debounce,
                   initRuns>>
    /\ UNCHANGED initFrame

\* handleDOMContentLoaded: marks the page initialized when a coordinator is
\* installed and initialized
HandleDOMContentLoaded ==
    /\ ~window.unifiedSyncInitialized
    /\ window.coreSyncSystem = "core" \/ window.unifiedSyncManager = "manager"
    /\ window' = [window EXCEPT !.unifiedSyncInitialized = TRUE]
    /\ UNCHANGED <<histStore, profStore, trig, syncSystem, migr, ops, log, debounce,
                   initRuns>>
    /\ UNCHANGED initFrame

\* initUnifiedSyncSystem() is called in tab t: it returns at its guard, or sets
\* the in-progress flag, runs disableLegacySyncSystems and awaits
\* loadUnifiedSyncManager()
InitUnifiedSyncSystemCalled(t) ==
    /\ ops < MaxOps
    /\ t \in open
    /\ ops' = ops + 1
    /\ IF window.unifiedSyncInitialized \/ window.coreSyncInitInProgress
       THEN /\ log' = Logged(InitEntry("guard", ManagerOrCore(window)))
            /\ UNCHANGED <<window, initRuns, profStore, trig>>
       ELSE /\ window' = [window EXCEPT !.coreSyncInitInProgress = TRUE,
                                        !.coreSyncSystem = "null"]
            /\ initRuns' = Append(initRuns, "loadUnifiedSyncManager")
            /\ profStore' = DisableLegacyStore(profStore)
            /\ trig' = [k \in TrigKeys |-> 0]
            /\ UNCHANGED log
    /\ UNCHANGED <<histStore, syncSystem, migr>>
    /\ UNCHANGED initFrame
    /\ Notify(t, debounce)

\* the await of run i ends with an exception: the script fails to load, the
\* 8 s timer fires first, or the loaded script installed no manager (only
\* for loadUnifiedSyncManager); the catch and finally blocks run
InitRunFails(t, i, why) ==
    /\ i \in 1..Len(initRuns)
    /\ why = "script error" \/ initRuns[i] = "loadUnifiedSyncManager"
    /\ initRuns' = Without(initRuns, i)
    /\ window' = WindowAfterFailure(window)
    /\ log' = Logged(InitEntry(why, ManagerOrCore(WindowAfterFailure(window))))
    /\ UNCHANGED <<histStore, profStore, trig, syncSystem, migr, ops, debounce>>
    /\ UNCHANGED initFrame

\* loadUnifiedSyncManager() of run i resolves: the script has installed the
\* manager, whose first pass stored its time; the run awaits
\* loadSyncMigrationHelper()
InitManagerLoaded(t, i) ==
    /\ i \in 1..Len(initRuns)
    /\ initRuns[i] = "loadUnifiedSyncManager"
    /\ initRuns' = [initRuns EXCEPT ![i] = "loadSyncMigrationHelper"]
    /\ window' = [window EXCEPT !.unifiedSyncManager = "manager"]
    /\ syncSystem' = "usm"
    /\ syncTime' = [syncTime EXCEPT !["unified_last_sync_time"] = now]
    /\ UNCHANGED <<histStore, profStore, trig, migr, ops, log>>
    /\ UNCHANGED <<localDB, dbHistory, dbProfile, pageSyncFn, apiService, open,
                   isSyncing, isEditingProfile, display, passes, pendingUser, pendingHist,
                   sinceSync, focusThrottle, now, before, trigTimers, updates, subscribers,
                   displayStack, batch, credentials>>
    /\ NotifyWith(t, debounce, <<LastSyncKey("usm")>>)

\* loadSyncMigrationHelper() of run i resolves: migrateAllData runs, the flags
\* are set and the run returns the manager
InitHelperLoaded(t, i, saved) ==
    /\ i \in 1..Len(initRuns)
    /\ initRuns[i] = "loadSyncMigrationHelper"
    /\ initRuns' = Without(initRuns, i)
    /\ window' = [window EXCEPT !.unifiedSyncInitialized = TRUE,
                                !.coreSyncInitInProgress = FALSE]
    /\ LET mp == MigrateProfile(profStore, profileKeys, "usm", now, saved)
       IN  /\ profStore' = mp.store
           /\ trig' = [trig EXCEPT !["unified_sync_trigger"] =
                          IF mp.migrated.tag = "obj" THEN now ELSE @]
    /\ histStore' = MigrateHistory(histStore, historyKeys, "usm", now, saved)
    /\ migr' = [runs |-> Min(migr.runs + 1, 2),
                ok |-> saved /\ (migr.runs = 0 \/ migr.ok),
                profile |-> CanonicalProfile(profStore, "usm"),
                history |-> Hist]
    /\ log' = Logged(InitEntry("done", window.unifiedSyncManager))
    /\ UNCHANGED <<syncSystem, ops>>
    /\ UNCHANGED initFrame
    /\ Notify(t, debounce)

NextInit ==
    \/ CoreScriptRuns
    \/ HandleDOMContentLoaded
    \/ InitUnifiedSyncSystemCalled(ThisTab)
    \/ \E i \in 1..MaxOps, why \in {"script error", "timeout", "no manager"} :
          InitRunFails(ThisTab, i, why)
    \/ \E i \in 1..MaxOps : InitManagerLoaded(ThisTab, i)
    \/ \E i \in 1..MaxOps, saved \in BOOLEAN : InitHelperLoaded(ThisTab, i, saved)

SpecInit == InitStore /\ [][NextInit]_vars

\* the step ends a run of initUnifiedSyncSystem
InitRunReturns == Len(initRuns') < Len(initRuns)

\* C31: at most one initUnifiedSyncSystem run is in progress in a tab, and a
\* run that ends (also by a script that fails to load or by the 8 s timeout)
\* leaves unifiedSyncInitialized true and the in-progress flag false, with a
\* sync system installed, which is what it returns.
C31_InitRunsOnceAndInstallsSystem ==
    [][/\ Len(initRuns') <= 1
       /\ InitRunReturns =>
             /\ window'.unifiedSyncInitialized
             /\ ~window'.coreSyncInitInProgress
             /\ Truthy(ManagerOrCore(window'))
             /\ log'[Len(log')].ret = ManagerOrCore(window')]_vars

\* a run ended by the timeout returned the backup system, and a later call
\* returned it at the guard
C31_Witness ==
    /\ Len(log) = 2
    /\ log[1].arg = "timeout"
    /\ log[1].ret = "backup"
    /\ log[2].arg = "guard"
    /\ log[2].ret = "backup"
    /\ window.unifiedSyncInitialized
    /\ ~window.coreSyncInitInProgress
    /\ initRuns = <<>>

----------------------------------------------------------------------------
(* UnifiedSyncManager.updateUserProfile and the remote API                 *)

\* updateData of updateUserProfile: the fields picked from profileData
\* (fullname, avatar, gender, ...; neither id nor email nor updatedAt)
UpdateData(profileData) == Profile(Undef, profileData.fullname, Undef, 0)

\* how apiService.updateUserProfile settles: "profile", resolved with the
\* profile the server holds after the update; "failed", resolved with the
\* object ApiService.updateUserProfile returns for an error response or a
\* network error ({ success: false, message, ... }, which has no field of a
\* profile).  ApiService.updateUserProfile catches everything: it never rejects.
ApiResults == {"profile", "failed"}

\* savedProfile of updateUserProfile
SavedProfile(profileData, result) ==
    IF result = "profile" THEN UpdateData(profileData) ELSE NoProfile

\* the argument of saveProfile in updateUserProfile: savedProfile || profileData
\* (every object the API resolves with is truthy)
FinalProfileArg(profileData, awaited, result) ==
    IF awaited THEN SavedProfile(profileData, result) ELSE profileData

\* saveProfile(profile) inside updateUserProfile; saved and signalled as in
\* USMSaveProfile
USMSaveProfileIn(profile, saved, time) ==
    IF saved THEN USMSaved(profStore, profile, time)
    ELSE /\ UNCHANGED profStore
         /\ \E signalled \in BOOLEAN :
               IF signalled THEN USMTriggerSync(time)
               ELSE UNCHANGED <<trig, trigTimers, syncTime>>

\* what the update steps leave alone
updateFrame == <<histStore, localDB, dbProfile, pageSyncFn, apiService, syncSystem, open,
                 subscribers, dbHistory, isSyncing, isEditingProfile, passes, pendingUser,
                 pendingHist, sinceSync, focusThrottle, before, display, migr, window,
                 extVars>>

\* unifiedSyncManager.updateUserProfile(profileData) called in tab t, up to
\* its await: with an apiService the call waits for the remote update,
\* without one it saves and returns
USMUpdateUserProfile(t, profileData, saved, dt) ==
    /\ ops < MaxOps
    /\ t \in open
    /\ syncSystem = "usm"
    /\ ops' = ops + 1
    /\ now' = now + dt
    /\ UNCHANGED updateFrame
    /\ IF apiService
       THEN /\ updates' = Append(updates, [profile |-> profileData, n |-> ops + 1])
            /\ UNCHANGED <<profStore, trig, trigTimers, syncTime, log, debounce>>
       ELSE /\ UNCHANGED updates
            /\ USMSaveProfileIn(FinalProfileArg(profileData, FALSE, "failed"), saved,
                                now + dt)
            /\ log' = Logged(Entry("updateUserProfile", "usm", profileData,
                                   USMProfileToSave(profileData, now + dt), IdNum(ops + 1),
                                   IF saved THEN "local" ELSE "returned unsaved"))
            /\ NotifyWith(t, debounce,
                          IF syncTime' # syncTime THEN <<LastSyncKey("usm")>> ELSE <<>>)

\* the remote update of the i-th waiting updateUserProfile call settles and
\* the call runs to its end
USMUpdateAnswered(t, i, result, saved, dt) ==
    /\ t \in open
    /\ i \in 1..Len(updates)
    /\ now' = now + dt
    /\ updates' = [j \in 1..(Len(updates) - 1) |->
                      IF j < i THEN updates[j] ELSE updates[j + 1]]
    /\ UNCHANGED <<updateFrame, ops>>
    /\ LET arg == FinalProfileArg(updates[i].profile, TRUE, result) IN
       /\ USMSaveProfileIn(arg, saved, now + dt)
       /\ log' = Logged(Entry("updateUserProfile", "usm", updates[i].profile,
                              USMProfileToSave(arg, now + dt), IdNum(updates[i].n),
                              IF ~saved THEN "returned unsaved"
                              ELSE IF result = "profile" THEN "remote" ELSE "remote failed"))
    /\ NotifyWith(t, debounce,
                  IF syncTime' # syncTime THEN <<LastSyncKey("usm")>> ELSE <<>>)

InitUpdate ==
    /\ \E u \in {PAbsent, StoredDave} :
          profStore = [k \in ProfileKeySet |->
                          IF k = "unified_user_profile" THEN u ELSE PAbsent]
    /\ syncSystem = "usm"
    /\ apiService \in BOOLEAN
    /\ syncTime = [k \in SyncTimeKeys |-> 0]
    /\ dbProfile = PAbsent
    /\ pageSyncFn = FALSE
    /\ open = {ThisTab}
    /\ isSyncing = [t \in Tabs |-> FALSE]
    /\ isEditingProfile = [t \in Tabs |-> FALSE]
    /\ display = [t \in Tabs |-> NoName]
    /\ passes = [t \in Tabs |-> <<>>]
    /\ pendingUser = [t \in Tabs |-> 0]
    /\ debounce = [t \in Tabs |-> NoKey]
    /\ sinceSync = [t \in Tabs |-> 0]
    /\ focusThrottle = [t \in Tabs |-> FALSE]
    /\ migr = MigrNone
    /\ updates = <<>>
    /\ subscribers = [e \in EventNames |-> <<>>]
    /\ window = WindowAtLoad
    /\ initRuns = <<>>
    /\ displayStack = <<>>
    /\ batch = NoBatch
    /\ credentials = NoCredentials
    /\ histStore = [k \in HistoryKeys |-> HAbsent]
    /\ trig = [k \in TrigKeys |-> 0]
    /\ trigTimers = [t \in Tabs |-> 0]
    /\ localDB = "none"
    /\ dbHistory = <<>>
    /\ pendingHist = 0
    /\ now = T0
    /\ ops = 0
    /\ log = <<>>
    /\ before = HAbsent

NextUpdate ==
    \/ \E p \in NewProfiles, saved \in BOOLEAN, dt \in Elapsed :
          USMUpdateUserProfile(ThisTab, p, saved, dt)
    \/ \E i \in 1..MaxOps, r \in ApiResults, saved \in BOOLEAN, dt \in Elapsed :
          USMUpdateAnswered(ThisTab, i, r, saved, dt)

SpecUpdate == InitUpdate /\ [][NextUpdate]_vars

\* the step ends an updateUserProfile call whose remote update failed, the
\* local writes working
RemoteUpdateFailed ==
    /\ Len(updates') < Len(updates)
    /\ log'[Len(log')].ret = "remote failed"

\* profile g has the fields the caller supplied in p
HasFieldsOf(g, p) ==
    /\ g.tag = "obj"
    /\ p.id # Undef => g.obj.id = p.id
    /\ p.fullname # Undef => g.obj.fullname = p.fullname
    /\ p.email # Undef => g.obj.email = p.email

\* C24: when the remote update fails, updateUserProfile(P) returns and has
\* stored the fields the caller supplied in P: getProfile() returns them.
C24_RemoteFailureFallsBackToLocal ==
    [][RemoteUpdateFailed =>
          HasFieldsOf(USMGetProfile(profStore'), log'[Len(log')].arg)]_vars

\* two updateUserProfile calls were made, both have ended, and every remote
\* update and every local write worked
BothUpdatesDone ==
    /\ ops = 2
    /\ updates = <<>>
    /\ Len(log) = 2
    /\ \A i \in 1..2 : log[i].op = "updateUserProfile" /\ log[i].ret \in {"local", "remote"}

\* C25: when updateUserProfile(P1) and then updateUserProfile(P2) were
\* called in one tab and both have ended, the stored profile is that of P2,
\* in whichever order the remote API answered.
C25_UpdatesTakeEffectInIssueOrder ==
    BothUpdatesDone =>
        \A i \in 1..2 :
            log[i].id = IdNum(2) =>
                /\ USMGetProfile(profStore).tag = "obj"
                /\ USMGetProfile(profStore).obj.fullname = log[i].arg.fullname

----------------------------------------------------------------------------
(* UnifiedSyncManager.updateProfileDisplay and its own event                *)

displayFrame == <<histVars, profStore, syncTime, dbProfile, pageSyncFn, apiService,
                  syncSystem, open, isSyncing, isEditingProfile, passes, pendingUser,
                  debounce, sinceSync, focusThrottle, now, before, migr, updates,
                  subscribers, window, initRuns,
                  batch,
                  credentials>>

\* what callers hand to updateProfileDisplay: null, a profile
DisplayArgs == {PAbsent} \cup {PObj(p) : p \in NewProfiles}

\* updateProfileDisplay(profile) called by a sync pass or a save of tab t:
\* null returns at once; otherwise the elements are written, the subscribers
\* notified and the unifiedProfileUpdated event is dispatched
USMUpdateProfileDisplay(t, profile) ==
    /\ ops < MaxOps
    /\ t \in open
    /\ syncSystem = "usm"
    /\ displayStack = <<>>
    /\ ops' = ops + 1
    /\ IF profile.tag # "obj"
       THEN /\ UNCHANGED <<display, displayStack>>
            /\ log' = Logged(Entry("updateProfileDisplay", "usm", profile.obj, NoProfile,
                                   IdNone, "returned"))
       ELSE /\ display' = [display EXCEPT ![t] = USMDisplayAfter(@, profile)]
            /\ displayStack' = <<profile>>
            /\ log' = Logged(Entry("updateProfileDisplay", "usm", profile.obj, NoProfile,
                                   IdNone, "dispatching"))
    /\ UNCHANGED displayFrame

\* the unifiedProfileUpdated listener of setupEventListeners runs inside
\* dispatchEvent: `if (profile) this.updateProfileDisplay(profile)`, with the
\* profile of the event
UnifiedProfileUpdatedListener(t) ==
    /\ t \in open
    /\ displayStack # <<>>
    /\ Len(displayStack) < MaxStack
    /\ display' = [display EXCEPT ![t] = USMDisplayAfter(@, displayStack[Len(displayStack)])]
    /\ displayStack' = Append(displayStack, displayStack[Len(displayStack)])
    /\ UNCHANGED <<ops, log>>
    /\ UNCHANGED displayFrame

\* the call stack is full: the innermost call throws a RangeError, which
\* dispatchEvent reports, and the calls return one after the other
CallStackExhausted(t) ==
    /\ t \in open
    /\ Len(displayStack) = MaxStack
    /\ displayStack' = <<>>
    /\ log' = Logged(Entry("updateProfileDisplay", "usm", displayStack[1].obj, NoProfile,
                           IdNone, "RangeError"))
    /\ UNCHANGED <<ops, display>>
    /\ UNCHANGED displayFrame

NextDisplay ==
    \/ \E p \in DisplayArgs : USMUpdateProfileDisplay(ThisTab, p)
    \/ UnifiedProfileUpdatedListener(ThisTab)
    \/ CallStackExhausted(ThisTab)

SpecDisplay == InitUpdate /\ [][NextDisplay]_vars

\* C33: the display refreshes that one updateProfileDisplay(profile) call
\* leads to through its unifiedProfileUpdated event end on their own: the
\* nested calls never fill the call stack.
C33_DisplayRefreshEndsOnItsOwn == Len(displayStack) < MaxStack

----------------------------------------------------------------------------
(* UnifiedSyncManager: subscribe, unsubscribe, notifySubscribers           *)

\* the callbacks pages register; cbThrows throws when it is called
Callbacks == {"cbA", "cbB", "cbThrows"}

\* unsubscribe that empties the list of the event (variant)
UnsubscribedAll(list, callback) == <<>>

\* this.subscribers[eventName].filter(cb => cb !== callback)
Unsubscribed(list, callback) == SelectSeq(list, LAMBDA cb : cb # callback)

\* the callbacks notifySubscribers calls, in order: forEach over the list, the
\* exception of a callback is caught and logged inside the loop
NotifiedCallbacks(list) == list

\* one observed call: registered is this.subscribers[eventName] as the call
\* found it, called the callbacks it invoked
SubEntry(op, eventName, callback, called) ==
    [op |-> op, event |-> eventName, callback |-> callback,
     registered |-> subscribers[eventName], called |-> called]

subFrame == <<histVars, profStore, syncTime, dbProfile, pageSyncFn, apiService, syncSystem,
              open, tabVars, now, before, migr, updates, window, extVars>>

\* subscribe(eventName, callback); an event name without a list gets one
Subscribe(eventName, callback) ==
    /\ ops < MaxSubCalls
    /\ ops' = ops + 1
    /\ subscribers' = [subscribers EXCEPT ![eventName] = Append(@, callback)]
    /\ log' = Logged(SubEntry("subscribe", eventName, callback, <<>>))
    /\ UNCHANGED subFrame

\* unsubscribe(eventName, callback), which is what the function subscribe
\* returned calls
Unsubscribe(eventName, callback) ==
    /\ ops < MaxSubCalls
    /\ ops' = ops + 1
    /\ subscribers' = [subscribers EXCEPT ![eventName] = Unsubscribed(@, callback)]
    /\ log' = Logged(SubEntry("unsubscribe", eventName, callback, <<>>))
    /\ UNCHANGED subFrame

\* notifySubscribers(eventName, data)
NotifySubscribers(eventName) ==
    /\ ops < MaxSubCalls
    /\ ops' = ops + 1
    /\ log' = Logged(SubEntry("notify", eventName, "",
                              NotifiedCallbacks(subscribers[eventName])))
    /\ UNCHANGED subscribers
    /\ UNCHANGED subFrame

NextSub ==
    \/ \E e \in EventNames, cb \in Callbacks : Subscribe(e, cb)
    \/ \E e \in EventNames, cb \in Callbacks : Unsubscribe(e, cb)
    \/ \E e \in EventNames : NotifySubscribers(e)

SpecSub == InitUpdate /\ [][NextSub]_vars

\* the number of times callback cb is in list l
Registrations(l, cb) == Cardinality({i \in 1..Len(l) : l[i] = cb})

\* C28: once the function subscribe(eventName, callback) returned has been
\* called, callback is no longer registered for eventName and only a new
\* subscribe(eventName, callback) registers it again; the subscriptions of
\* every other callback, and those of other events, stay as they were; and a
\* notification of eventName calls exactly the callbacks registered for it,
\* each as often as it is registered, also when one of them throws.
C28_UnsubscribeRemovesOnlyThatCallback ==
    [][ops' = ops + 1 =>
          LET call == log'[Len(log')] IN
          /\ call.op = "unsubscribe" =>
                /\ Registrations(subscribers'[call.event], call.callback) = 0
                /\ \A cb \in Callbacks \ {call.callback} :
                      Registrations(subscribers'[call.event], cb) =
                          Registrations(subscribers[call.event], cb)
          /\ call.op = "notify" =>
                \A cb \in Callbacks :
                    Registrations(call.called, cb) =
                        Registrations(subscribers'[call.event], cb)
          /\ \A e \in EventNames, cb \in Callbacks :
                \/ call.op = "subscribe" /\ call.event = e /\ call.callback = cb
                \/ Registrations(subscribers'[e], cb) <= Registrations(subscribers[e], cb)
          /\ \A e \in EventNames \ {call.event} : subscribers'[e] = subscribers[e]]_vars

\* cbA was unsubscribed from an event cbB is also subscribed to, and the next
\* notification of the event called cbB and not cbA
C28_Witness ==
    /\ Len(log) = 2
    /\ log[1].op = "unsubscribe"
    /\ log[1].callback = "cbA"
    /\ Registrations(log[1].registered, "cbA") > 0
    /\ Registrations(log[1].registered, "cbB") > 0
    /\ log[2].op = "notify"
    /\ log[2].event = log[1].event
    /\ Registrations(log[2].called, "cbB") > 0
    /\ Registrations(log[2].called, "cbA") = 0

----------------------------------------------------------------------------
(* The storage adapter: secureStorage of CoreSyncSystem / UnifiedSyncManager *)

\* a value handed to secureStorage.setItem: a string (the text it consists
\* of), or an object
StringValue(text) == [type |-> "string", text |-> text, obj |-> NoProfile]
ObjectValue(o) == [type |-> "object", text |-> PAbsent, obj |-> o]

\* stringValue of setItem: typeof value === 'string' ? value : JSON.stringify(value)
StringOf(value) == IF value.type = "string" THEN value.text ELSE PObj(value.obj)

\* variant of SetItemReturns: the catch block is missing its `return false`
SetItemReturnsAlways(fails) == TRUE

\* what secureStorage.setItem / removeItem return; fails: the statement in the
\* try block (JSON.stringify, localStorage.setItem / removeItem) throws
SetItemReturns(fails) == ~fails

\* localStorage after secureStorage.setItem(key, value)
SetItemStore(store, key, value, fails) ==
    IF fails THEN store ELSE [store EXCEPT ![key] = StringOf(value)]

\* localStorage after secureStorage.removeItem(key)
RemoveItemStore(store, key, fails) ==
    IF fails THEN store ELSE [store EXCEPT ![key] = PAbsent]

\* what secureStorage.getItem(key) returns (tag "absent" stands for null)
GetItem(store, key, fails) == IF fails THEN PAbsent ELSE store[key]

\* the argument of an adapter call as the log keeps it
AdapterArg(key, value, fails) == [key |-> key, value |-> value, fails |-> fails]

AdapterVars == <<histStore, trig, trigTimers, syncTime, cfgVars, dbHistory, isSyncing,
                 isEditingProfile, display, passes, pendingUser, pendingHist, sinceSync,
                 focusThrottle, now, before, migr>>

\* secureStorage.getItem(key) called in tab t
SecureGetItem(t, key, fails) ==
    /\ ops < MaxOps
    /\ ops' = ops + 1
    /\ log' = Logged(Entry("getItem", syncSystem, AdapterArg(key, StringValue(PAbsent), fails),
                           GetItem(profStore, key, fails), IdNone,
                           IF GetItem(profStore, key, fails) = PAbsent THEN "null"
                           ELSE "string"))
    /\ UNCHANGED <<profStore, debounce>>
    /\ UNCHANGED AdapterVars

\* secureStorage.setItem(key, value) called in tab t
SecureSetItem(t, key, value, fails) ==
    /\ ops < MaxOps
    /\ ops' = ops + 1
    /\ profStore' = SetItemStore(profStore, key, value, fails)
    /\ log' = Logged(Entry("setItem", syncSystem, AdapterArg(key, value, fails), PAbsent,
                           IdNone, IF SetItemReturns(fails) THEN "true" ELSE "false"))
    /\ UNCHANGED AdapterVars
    /\ Notify(t, debounce)

\* secureStorage.removeItem(key) called in tab t
SecureRemoveItem(t, key, fails) ==
    /\ ops < MaxOps
    /\ ops' = ops + 1
    /\ profStore' = RemoveItemStore(profStore, key, fails)
    /\ log' = Logged(Entry("removeItem", syncSystem,
                           AdapterArg(key, StringValue(PAbsent), fails), PAbsent,
                           IdNone, IF SetItemReturns(fails) THEN "true" ELSE "false"))
    /\ UNCHANGED AdapterVars
    /\ Notify(t, debounce)

\* the keys and values the adapter is called with: a string that is not JSON,
\* a time as a string, an object
AdapterKeys == {"core_user_profile", "userProfileData"}
AdapterValues ==
    {StringValue(PCorrupt), StringValue(PScalar),
     ObjectValue(Profile("currentUser", "Alice", Undef, T0))}

InitAdapter ==
    /\ \E a \in {PAbsent, PCorrupt} :
          profStore = [k \in ProfileKeySet |-> IF k = "userProfileData" THEN a ELSE PAbsent]
    /\ syncSystem \in {"core", "usm"}
    /\ syncTime = [k \in SyncTimeKeys |-> 0]
    /\ dbProfile = PAbsent
    /\ pageSyncFn = FALSE
    /\ apiService = FALSE
    /\ open = {ThisTab}
    /\ isSyncing = [t \in Tabs |-> FALSE]
    /\ isEditingProfile = [t \in Tabs |-> FALSE]
    /\ display = [t \in Tabs |-> NoName]
    /\ passes = [t \in Tabs |-> <<>>]
    /\ pendingUser = [t \in Tabs |-> 0]
    /\ debounce = [t \in Tabs |-> NoKey]
    /\ sinceSync = [t \in Tabs |-> 0]
    /\ focusThrottle = [t \in Tabs |-> FALSE]
    /\ migr = MigrNone
    /\ updates = <<>>
    /\ subscribers = [e \in EventNames |-> <<>>]
    /\ window = WindowAtLoad
    /\ initRuns = <<>>
    /\ displayStack = <<>>
    /\ batch = NoBatch
    /\ credentials = NoCredentials
    /\ histStore = [k \in HistoryKeys |-> HAbsent]
    /\ trig = [k \in TrigKeys |-> 0]
    /\ trigTimers = [t \in Tabs |-> 0]
    /\ localDB = "none"
    /\ dbHistory = <<>>
    /\ pendingHist = 0
    /\ now = T0
    /\ ops = 0
    /\ log = <<>>
    /\ before = HAbsent

NextAdapter ==
    \/ \E k \in AdapterKeys, fails \in BOOLEAN : SecureGetItem(ThisTab, k, fails)
    \/ \E k \in AdapterKeys, v \in AdapterValues, fails \in BOOLEAN :
          SecureSetItem(ThisTab, k, v, fails)
    \/ \E k \in AdapterKeys, fails \in BOOLEAN : SecureRemoveItem(ThisTab, k, fails)

SpecAdapter == InitAdapter /\ [][NextAdapter]_vars

\* the call the step makes and the call before it (every step of SpecAdapter
\* is an adapter call and adds its entry to the log)
ThisCall == log'[Len(log')]
CallBefore == log[Len(log)]

\* the step follows a call on the same key that did not fail
Follows(op) ==
    /\ Len(log) > 0
    /\ CallBefore.op = op
    /\ CallBefore.arg.key = ThisCall.arg.key
    /\ ~CallBefore.arg.fails

\* C13: no call of the adapter throws.  When the underlying operation fails,
\* getItem returns null, setItem and removeItem return false and the store is
\* as it was.  When it succeeds, setItem and removeItem return true, a getItem
\* that follows a setItem of the key returns the string written (for a value
\* that is no string, its JSON text), and a getItem that follows a removeItem
\* returns null.
C13_AdapterReportsFailure ==
    [][/\ ThisCall.ret \in {"null", "string", "true", "false"}
       /\ ThisCall.arg.fails =>
             /\ profStore' = profStore
             /\ ThisCall.ret = (IF ThisCall.op = "getItem" THEN "null" ELSE "false")
       /\ (~ThisCall.arg.fails /\ ThisCall.op # "getItem") => ThisCall.ret = "true"
       /\ (~ThisCall.arg.fails /\ ThisCall.op = "getItem" /\ Follows("setItem")) =>
             /\ ThisCall.ret = "string"
             /\ ThisCall.rec = (IF CallBefore.arg.value.type = "string"
                                THEN CallBefore.arg.value.text
                                ELSE PObj(CallBefore.arg.value.obj))
       /\ (~ThisCall.arg.fails /\ ThisCall.op = "getItem" /\ Follows("removeItem")) =>
             ThisCall.ret = "null"]_vars

\* C13 witness: a setItem of an object failed on a key that held a string, and
\* the getItem that followed returned that string
C13_Witness ==
    /\ Len(log) = 2
    /\ log[1].op = "setItem"
    /\ log[1].arg.fails
    /\ log[1].arg.value.type = "object"
    /\ log[1].ret = "false"
    /\ log[2].op = "getItem"
    /\ log[2].arg.key = log[1].arg.key
    /\ log[2].rec = PCorrupt

----------------------------------------------------------------------------
(* The sync scheduler: syncAllData, its requests, and the storage handler  *)

\* time since state.lastSyncTime, as the thresholds the code compares it with:
\* 0 is at most 10 s, FocusLevel more than 10 s, VisibleLevel more than 30 s,
\* IntervalLevel at least config.syncInterval (60 s)
FocusLevel == 1
VisibleLevel == 2
IntervalLevel == 3

\* a page of the origin that runs none of the tabs of the model
Elsewhere == "elsewhere"

\* one syncAllData call that has not returned: what its profile refresh and
\* its history refresh wait for ("done": nothing any more), and whether a
\* promise it awaited was rejected
Pass(user, hist, failed) == [user |-> user, hist |-> hist, failed |-> failed]

PassDone(p) == p.user = "done" /\ p.hist = "done"

\* how an awaited promise settles: with a value, with null / an empty list,
\* or rejected
Results == {"resolved", "empty", "rejected"}

\* what apiService.getUserProfile() / getAnalysisRecords() resolve with
ServerProfile == PObj(Profile("u7", "Eve", "eve@example.com", OldTs))
ServerRecords == [i \in 1..2 |-> Rec(IdNum(i), 600 - i, 90, 0, 0)]

\* variant of SkipSync: the isSyncing check is missing
SkipSyncNever(t) == FALSE

\* the guard of syncAllData: `if (this.state.isSyncing) return` (CoreSyncSystem
\* also returns when not initialized, which holds only inside init())
SkipSync(t) == isSyncing[t]

\* variant of SyncingAfterPass: the flag is reset only after a pass in which
\* nothing was rejected
SyncingAfterFailedPass(failed) == failed

\* the finally block of syncAllData: isSyncing = false
SyncingAfterPass(failed) == FALSE

\* CoreSyncSystem.syncUserData from the point where localDB.getUserProfile()
\* has settled with fromDB (null when there is no localDB, when the promise
\* resolved with null and when it was rejected)
CoreUserRefresh(t, store, shown, fromDB) ==
    IF fromDB.tag # "absent" /\ ~isEditingProfile[t]
    THEN [store |-> store, shown |-> CoreDisplayAfter(shown, fromDB)]
    ELSE LET profile == CoreGetUserProfile(store) IN
         [store |-> CoreGetUserProfileStore(store),
          shown |-> IF profile.tag # "absent" /\ ~isEditingProfile[t]
                    THEN CoreDisplayAfter(shown, profile) ELSE shown]

\* UnifiedSyncManager.syncUserData from the point where
\* apiService.getUserProfile() has settled with fromAPI (null as above)
USMUserRefresh(store, shown, fromAPI, time) ==
    IF fromAPI.tag # "absent"
    THEN [store |-> USMSavedStore(store, AsObject(fromAPI), time),
          shown |-> USMDisplayAfter(shown, fromAPI), saved |-> TRUE]
    ELSE [store |-> store,
          shown |-> USMDisplayAfter(shown, USMGetProfile(store)), saved |-> FALSE]

\* variant of LastSyncTimeAfterPass: the time is recorded only after a pass
\* in which nothing was rejected
LastSyncTimeUnlessFailed(stored, failed, time) == IF failed THEN stored ELSE time

\* the value of the last-sync-time key at the end of a pass:
\* secureStorage.setItem(storageKeys.lastSyncTime, Date.now().toString())
LastSyncTimeAfterPass(stored, failed, time) == time

\* the last-sync-time keys when a syncAllData call has got as far as p
PassSyncTime(stored, p, time) ==
    IF PassDone(p)
    THEN [stored EXCEPT ![LastSyncKey(syncSystem)] =
             LastSyncTimeAfterPass(@, p.failed, time)]
    ELSE stored

\* a syncAllData call at its first await on a promise that does not settle
\* within the task
StartedPass ==
    IF syncSystem = "core"
    THEN Pass(IF localDB # "none" THEN "db" ELSE "done",
              IF localDB # "none" THEN "db" ELSE IF pageSyncFn THEN "fn" ELSE "done",
              FALSE)
    ELSE Pass(IF apiService THEN "api" ELSE "done",
              IF apiService THEN "wait" ELSE "done", FALSE)

\* whether a syncAllData call of tab t would return at its guard
Skipped(t) == SkipSync(t) \/ Len(passes[t]) >= MaxPasses

\* the last-sync-time key when a syncAllData call of tab t writes it
SyncExtra(t) ==
    IF ~Skipped(t) /\ PassDone(StartedPass) THEN <<LastSyncKey(syncSystem)>> ELSE <<>>

\* syncAllData() called in tab t, up to the point where it yields to other
\* tasks: the pass is over when nothing it awaits is pending
SyncAllData(t) ==
    IF Skipped(t)
    THEN UNCHANGED <<isSyncing, passes, display, sinceSync, profStore, syncTime>>
    ELSE LET p == StartedPass
             r == IF p.user # "done" THEN [store |-> profStore, shown |-> display[t]]
                  ELSE IF syncSystem = "core"
                  THEN CoreUserRefresh(t, profStore, display[t], PAbsent)
                  ELSE [store |-> profStore,
                        shown |-> USMDisplayAfter(display[t], USMGetProfile(profStore))]
         IN  /\ profStore' = r.store
             /\ display' = [display EXCEPT ![t] = r.shown]
             /\ syncTime' = PassSyncTime(syncTime, p, now)
             /\ IF PassDone(p)
                THEN /\ isSyncing' = [isSyncing EXCEPT ![t] = SyncingAfterPass(FALSE)]
                     /\ sinceSync' = [sinceSync EXCEPT ![t] = 0]
                     /\ UNCHANGED passes
                ELSE /\ isSyncing' = [isSyncing EXCEPT ![t] = TRUE]
                     /\ passes' = [passes EXCEPT ![t] = Append(@, p)]
                     /\ UNCHANGED sinceSync

\* the observation of a scheduler step replaces the log
LoggedLast(e) == <<e>>

\* what no scheduler step changes
restVars == <<cfgVars, dbHistory, now, before, migr>>

\* a request that only calls syncAllData
SyncRequest(t) ==
    /\ SyncAllData(t)
    /\ UNCHANGED <<histStore, trig, trigTimers, isEditingProfile, pendingUser, pendingHist>>
    /\ UNCHANGED restVars
    /\ NotifyWith(t, debounce, SyncExtra(t))

\* the periodic check: CoreSyncSystem.scheduleNextSync (every 5 s, syncs when
\* the interval has passed), UnifiedSyncManager.scheduleNextSync (every 60 s)
TimerCheck(t) ==
    /\ t \in open
    /\ syncSystem = "core" => sinceSync[t] = IntervalLevel
    /\ SyncRequest(t)
    /\ UNCHANGED <<focusThrottle, ops, log>>

\* the window 'focus' listener with its 5 s throttle
PageFocus(t) ==
    /\ t \in open
    /\ ~focusThrottle[t]
    /\ ops < MaxCalls
    /\ ops' = ops + 1
    /\ focusThrottle' = [focusThrottle EXCEPT ![t] = TRUE]
    /\ IF syncSystem = "core" /\ sinceSync[t] < FocusLevel
       THEN /\ UNCHANGED <<isSyncing, passes, display, sinceSync, profStore, histStore, trig,
                           trigTimers, syncTime, isEditingProfile, pendingUser, pendingHist,
                           debounce>>
            /\ UNCHANGED restVars
       ELSE SyncRequest(t)
    /\ log' = LoggedLast(Entry("focus", syncSystem, NoProfile, NoProfile, IdNone,
                               IF syncSystem = "core" /\ sinceSync[t] < FocusLevel
                               THEN "ignored"
                               ELSE IF Skipped(t) THEN "skipped" ELSE "started"))

\* the setTimeout callback of the focus throttle
FocusThrottleExpire(t) ==
    /\ focusThrottle[t]
    /\ focusThrottle' = [focusThrottle EXCEPT ![t] = FALSE]
    /\ UNCHANGED <<isSyncing, passes, display, sinceSync, profStore, histStore, trig,
                   trigTimers, syncTime, isEditingProfile, pendingUser, pendingHist, debounce,
                   ops, log>>
    /\ UNCHANGED restVars

\* the 'visibilitychange' listener when the page became visible:
\* CoreSyncSystem compares the time since state.lastSyncTime with 30 s,
\* UnifiedSyncManager calls syncAllData
VisibilityChange(t) ==
    /\ t \in open
    /\ ops < MaxCalls
    /\ ops' = ops + 1
    /\ IF syncSystem = "core" /\ sinceSync[t] < VisibleLevel
       THEN /\ UNCHANGED <<isSyncing, passes, display, sinceSync, profStore, histStore, trig,
                           trigTimers, syncTime, isEditingProfile, pendingUser, pendingHist,
                           debounce>>
            /\ UNCHANGED restVars
       ELSE SyncRequest(t)
    /\ log' = LoggedLast(Entry("visibilitychange", syncSystem, NoProfile, NoProfile, IdNone,
                               IF syncSystem = "core" /\ sinceSync[t] < VisibleLevel
                               THEN "ignored"
                               ELSE IF Skipped(t) THEN "skipped" ELSE "started"))
    /\ UNCHANGED focusThrottle

\* syncAllData() called by the page
ExplicitSync(t) ==
    /\ t \in open
    /\ ops < MaxCalls
    /\ ops' = ops + 1
    /\ log' = LoggedLast(Entry("syncAllData", syncSystem, NoProfile, NoProfile, IdNone,
                           IF Skipped(t) THEN "skipped" ELSE "started"))
    /\ SyncRequest(t)
    /\ UNCHANGED focusThrottle

\* setEditingProfile(isEditing)
SetEditingProfile(t, isEditing) ==
    /\ t \in open
    /\ syncSystem = "core"
    /\ isEditingProfile[t] # isEditing
    /\ isEditingProfile' = [isEditingProfile EXCEPT ![t] = isEditing]
    /\ UNCHANGED <<isSyncing, passes, display, sinceSync, profStore, histStore, trig,
                   trigTimers, syncTime, pendingUser, pendingHist, debounce, focusThrottle,
                   ops, log>>
    /\ UNCHANGED restVars

\* time passes: every tab gets nearer to its next threshold
Tick ==
    /\ syncSystem = "core"
    /\ \E t \in open : sinceSync[t] < IntervalLevel
    /\ sinceSync' = [t \in Tabs |->
                        IF t \in open /\ sinceSync[t] < IntervalLevel
                        THEN sinceSync[t] + 1 ELSE sinceSync[t]]
    /\ UNCHANGED <<isSyncing, passes, display, profStore, histStore, trig, trigTimers,
                   syncTime, isEditingProfile, pendingUser, pendingHist, debounce,
                   focusThrottle, ops, log>>
    /\ UNCHANGED restVars

\* the keys a page outside the model writes: those the storage handler of
\* the running coordinator has a branch for
ForeignKeys(sys) == {ProfileKey(sys), "userProfileData", TriggerKey(sys), "analysisHistory"}

\* a page outside the model writes a key: the open tabs receive the storage
\* event
ForeignWrite(key, profile) ==
    /\ ops < MaxCalls
    /\ ops' = ops + 1
    /\ IF key \in ProfileKeySet
       THEN /\ profStore[key] # profile
            /\ profStore' = [profStore EXCEPT ![key] = profile]
            /\ UNCHANGED <<trig, histStore>>
       ELSE IF key \in TrigKeys
       THEN /\ trig[key] # now
            /\ trig' = [trig EXCEPT ![key] = now]
            /\ UNCHANGED <<profStore, histStore>>
       ELSE /\ histStore[key] # HList(BaseList(2))
            /\ histStore' = [histStore EXCEPT ![key] = HList(BaseList(2))]
            /\ UNCHANGED <<profStore, trig>>
    /\ UNCHANGED <<isSyncing, passes, display, sinceSync, trigTimers, syncTime,
                   isEditingProfile, pendingUser, pendingHist, focusThrottle, log>>
    /\ UNCHANGED restVars
    /\ Notify(Elsewhere, debounce)

\* the keys of the handleStorageChange branch for the old systems
LegacyEventKeys(sys) ==
    IF sys = "core" THEN {"userProfileData", "unified_user_profile", "ultimate_user_profile"}
    ELSE {"userProfileData", "core_user_profile", "ultimate_user_profile"}

\* whether handleStorageChange(key) of a CoreSyncSystem tab gets as far as the
\* setItem of saveUserProfile
MigrationSaves(t, key) ==
    /\ syncSystem = "core"
    /\ ~isSyncing[t]
    /\ key \in LegacyEventKeys("core")
    /\ profStore[key].tag \in {"obj", "scalar"}

\* the debounce timer of the 'storage' listener fires: handleStorageChange
\* with the last event. saved: what secureStorage.setItem returns when the
\* handler saves.
DebounceFire(t, saved) ==
    /\ t \in open
    /\ debounce[t] # NoKey
    /\ saved \/ MigrationSaves(t, debounce[t])
    /\ UNCHANGED <<histStore, isEditingProfile, focusThrottle, ops, log>>
    /\ UNCHANGED restVars
    /\ LET key == debounce[t]
           base == [debounce EXCEPT ![t] = NoKey]
       IN  IF isSyncing[t]
           THEN /\ UNCHANGED <<isSyncing, passes, display, sinceSync, profStore, trig,
                               trigTimers, syncTime, pendingUser, pendingHist>>
                /\ debounce' = base
           ELSE IF key = ProfileKey(syncSystem)
                   \/ (syncSystem = "usm" /\ key \in LegacyEventKeys("usm"))
           THEN \* syncUserData()
                IF (syncSystem = "core" /\ localDB # "none")
                   \/ (syncSystem = "usm" /\ apiService)
                THEN /\ pendingUser' = [pendingUser EXCEPT ![t] = @ + 1]
                     /\ UNCHANGED <<isSyncing, passes, display, sinceSync, profStore, trig,
                                    trigTimers, syncTime, pendingHist>>
                     /\ debounce' = base
                ELSE LET r == IF syncSystem = "core"
                              THEN CoreUserRefresh(t, profStore, display[t], PAbsent)
                              ELSE [store |-> profStore,
                                    shown |-> USMDisplayAfter(display[t],
                                                              USMGetProfile(profStore))]
                     IN  /\ profStore' = r.store
                         /\ display' = [display EXCEPT ![t] = r.shown]
                         /\ UNCHANGED <<isSyncing, passes, sinceSync, trig, trigTimers,
                                        syncTime, pendingUser, pendingHist>>
                         /\ Notify(t, base)
           ELSE IF key = "analysisHistory"
           THEN \* syncAnalysisHistory()
                /\ IF (syncSystem = "core" /\ localDB # "none")
                      \/ (syncSystem = "usm" /\ apiService)
                   THEN pendingHist' = pendingHist + 1 ELSE UNCHANGED pendingHist
                /\ UNCHANGED <<isSyncing, passes, display, sinceSync, profStore, trig,
                               trigTimers, syncTime, pendingUser>>
                /\ debounce' = base
           ELSE IF key = TriggerKey(syncSystem)
           THEN /\ SyncAllData(t)
                /\ UNCHANGED <<trig, trigTimers, pendingUser, pendingHist>>
                /\ NotifyWith(t, base, SyncExtra(t))
           ELSE IF MigrationSaves(t, key) /\ saved
           THEN \* migrateUserData(key)
                /\ CoreSaved(t, profStore, AsObject(profStore[key]), now)
                /\ UNCHANGED <<isSyncing, passes, sinceSync, syncTime, pendingUser,
                               pendingHist>>
                /\ Notify(t, base)
           ELSE /\ UNCHANGED <<isSyncing, passes, display, sinceSync, profStore, trig,
                               trigTimers, syncTime, pendingUser, pendingHist>>
                /\ debounce' = base

\* what the promise a profile refresh awaits settles with
SettledProfile(result) ==
    IF result # "resolved" THEN PAbsent
    ELSE IF syncSystem = "core" THEN dbProfile ELSE ServerProfile

\* a result the awaited promise can settle with: LocalDB.getUserProfile
\* resolves with the stored profile, or with null when there is none
CanSettleProfile(result) ==
    syncSystem = "core" =>
        /\ result = "resolved" => dbProfile.tag # "absent"
        /\ result = "empty" => dbProfile.tag = "absent"

\* the last-sync-time keys after a profile refresh whose promise settled:
\* UnifiedSyncManager saves a profile of the API, and saveProfile calls
\* triggerSync
RefreshedSyncTime(result) ==
    IF syncSystem = "usm" /\ SettledProfile(result).tag # "absent"
    THEN [syncTime EXCEPT !["unified_last_sync_time"] = now] ELSE syncTime

RefreshExtra(result) ==
    IF syncSystem = "usm" /\ SettledProfile(result).tag # "absent"
    THEN <<LastSyncKey("usm")>> ELSE <<>>

\* the profile refresh after its promise settled, in either coordinator
UserRefreshed(t, result) ==
    IF syncSystem = "core"
    THEN LET r == CoreUserRefresh(t, profStore, display[t], SettledProfile(result)) IN
         /\ profStore' = r.store
         /\ display' = [display EXCEPT ![t] = r.shown]
         /\ UNCHANGED <<trig, trigTimers>>
    ELSE LET r == USMUserRefresh(profStore, display[t], SettledProfile(result), now) IN
         /\ profStore' = r.store
         /\ display' = [display EXCEPT ![t] = r.shown]
         /\ trig' = IF r.saved THEN [trig EXCEPT !["unified_sync_trigger"] = now] ELSE trig
         /\ UNCHANGED trigTimers

\* syncUserData() called by handleStorageChange, after its await
UserSettled(t, result) ==
    /\ pendingUser[t] > 0
    /\ CanSettleProfile(result)
    /\ pendingUser' = [pendingUser EXCEPT ![t] = @ - 1]
    /\ UserRefreshed(t, result)
    /\ syncTime' = RefreshedSyncTime(result)
    /\ UNCHANGED <<isSyncing, passes, sinceSync, histStore, isEditingProfile, pendingHist,
                   focusThrottle, ops, log>>
    /\ UNCHANGED restVars
    /\ NotifyWith(t, debounce, RefreshExtra(result))

\* pass i of tab t goes on as p: it returns when nothing is pending, through
\* the sync-time update and the finally block
PassContinues(t, i, p) ==
    IF PassDone(p)
    THEN /\ passes' = [passes EXCEPT ![t] = Without(@, i)]
         /\ isSyncing' = [isSyncing EXCEPT ![t] = SyncingAfterPass(p.failed)]
         /\ sinceSync' = [sinceSync EXCEPT ![t] = 0]
         /\ log' = LoggedLast(Entry("pass", syncSystem, NoProfile, NoProfile, IdNone,
                                IF p.failed THEN "failed" ELSE "ok"))
    ELSE /\ passes' = [passes EXCEPT ![t][i] = p]
         /\ UNCHANGED <<isSyncing, sinceSync, log>>

PassExtra(p) == IF PassDone(p) THEN <<LastSyncKey(syncSystem)>> ELSE <<>>

\* the profile refresh of pass i settles; UnifiedSyncManager then starts the
\* history refresh
PassUserSettled(t, i, result) ==
    /\ i \in 1..Len(passes[t])
    /\ passes[t][i].user # "done"
    /\ CanSettleProfile(result)
    /\ UserRefreshed(t, result)
    /\ UNCHANGED <<histStore, isEditingProfile, pendingUser, pendingHist, focusThrottle, ops>>
    /\ UNCHANGED restVars
    /\ LET p == [passes[t][i] EXCEPT
                    !.user = "done",
                    !.hist = IF @ = "wait" THEN "api" ELSE @,
                    !.failed = @ \/ result = "rejected"]
       IN  /\ PassContinues(t, i, p)
           /\ syncTime' = PassSyncTime(RefreshedSyncTime(result), p, now)
           /\ NotifyWith(t, debounce, RefreshExtra(result) \o PassExtra(p))

\* a result the promise of a history refresh can settle with
CanSettleHistory(source, result) ==
    /\ source = "db" => /\ result = "resolved" => Len(dbHistory) > 0
                        /\ result = "empty" => Len(dbHistory) = 0
    /\ source = "fn" => result # "empty"

\* the history refresh of pass i settles
PassHistSettled(t, i, result) ==
    /\ i \in 1..Len(passes[t])
    /\ passes[t][i].hist \in {"db", "fn", "api"}
    /\ CanSettleHistory(passes[t][i].hist, result)
    /\ UNCHANGED <<profStore, trig, trigTimers, display, isEditingProfile, pendingUser,
                   pendingHist, focusThrottle, ops>>
    /\ UNCHANGED restVars
    /\ LET source == passes[t][i].hist
           p == [passes[t][i] EXCEPT
                    !.hist = IF source = "db" /\ result = "rejected" /\ pageSyncFn
                             THEN "fn" ELSE "done",
                    !.failed = @ \/ result = "rejected"]
       IN  /\ histStore' =
                  IF result # "resolved" \/ source = "fn" THEN histStore
                  ELSE IF source = "db"
                  THEN [histStore EXCEPT !["analysisHistory"] =
                           HList(BackupList(LocalDBGetAll(dbHistory)))]
                  ELSE [histStore EXCEPT !["analysisHistory"] =
                           HList(USMSavedHistory(ServerRecords))]
           /\ PassContinues(t, i, p)
           /\ syncTime' = PassSyncTime(syncTime, p, now)
           /\ NotifyWith(t, debounce, PassExtra(p))

\* UnifiedSyncManager.syncAnalysisHistory() called by handleStorageChange,
\* after its await
USMSyncAnalysisHistorySettled(t, result) ==
    /\ syncSystem = "usm"
    /\ t \in open
    /\ pendingHist > 0
    /\ result # "empty"
    /\ pendingHist' = pendingHist - 1
    /\ histStore' = IF result = "resolved"
                    THEN [histStore EXCEPT !["analysisHistory"] =
                             HList(USMSavedHistory(ServerRecords))]
                    ELSE histStore
    /\ UNCHANGED <<isSyncing, passes, display, sinceSync, profStore, trig, trigTimers,
                   syncTime, isEditingProfile, pendingUser, focusThrottle, ops, log>>
    /\ UNCHANGED restVars
    /\ Notify(t, debounce)

----------------------------------------------------------------------------
(* Specification of the scheduler in one tab                                *)

\* the state after the coordinator was constructed in a page.  CoreSyncSystem:
\* the syncAllData of init() returns at its guard (initialized is still false)
\* and lastSyncTime is the time an earlier page stored (Tick leads to the
\* state of a page that finds none).  UnifiedSyncManager: the
\* syncAllData of init() runs; without a logged-in apiService it is over when
\* the constructor returns, and has stored its time.
Init ==
    /\ syncSystem \in {"core", "usm"}
    /\ open = {ThisTab}
    /\ IF syncSystem = "core"
       THEN /\ localDB \in {"none", "LocalDB"}
            /\ pageSyncFn \in BOOLEAN
            /\ dbProfile = (IF localDB = "LocalDB" /\ pageSyncFn THEN StoredDave ELSE PAbsent)
            /\ apiService = FALSE
       ELSE /\ localDB = "none"
            /\ pageSyncFn = FALSE
            /\ dbProfile = PAbsent
            /\ apiService \in BOOLEAN
    /\ sinceSync = [t \in Tabs |-> 0]
    /\ dbHistory = (IF dbProfile = PAbsent THEN <<>> ELSE BaseList(2))
    /\ \E c \in {PAbsent, StoredBob} :
          profStore = [k \in ProfileKeySet |-> IF k = ProfileKey(syncSystem) THEN c
                                               ELSE PAbsent]
    /\ histStore = [k \in HistoryKeys |-> HAbsent]
    /\ trig = [k \in TrigKeys |-> 0]
    /\ trigTimers = [t \in Tabs |-> 0]
    /\ syncTime = [k \in SyncTimeKeys |->
                      IF k # LastSyncKey(syncSystem) THEN 0
                      ELSE IF syncSystem = "usm" /\ ~apiService THEN T0 ELSE OldTs]
    /\ isSyncing = [t \in Tabs |-> t = ThisTab /\ syncSystem = "usm" /\ apiService]
    /\ passes = [t \in Tabs |-> IF isSyncing[t] THEN <<StartedPass>> ELSE <<>>]
    /\ display = [t \in Tabs |->
                     IF t = ThisTab /\ syncSystem = "usm" /\ ~apiService
                     THEN USMDisplayAfter(NoName, USMGetProfile(profStore)) ELSE NoName]
    /\ isEditingProfile = [t \in Tabs |-> FALSE]
    /\ pendingUser = [t \in Tabs |-> 0]
    /\ pendingHist = 0
    /\ debounce = [t \in Tabs |-> NoKey]
    /\ focusThrottle = [t \in Tabs |-> FALSE]
    /\ now = T0
    /\ ops = 0
    /\ log = <<>>
    /\ before = HAbsent
    /\ migr = MigrNone
    /\ updates = <<>>
    /\ subscribers = [e \in EventNames |-> <<>>]
    /\ window = WindowAtLoad
    /\ initRuns = <<>>
    /\ displayStack = <<>>
    /\ batch = NoBatch
    /\ credentials = NoCredentials

Next ==
    \/ \E t \in Tabs : TimerCheck(t)
    \/ \E t \in Tabs : PageFocus(t)
    \/ \E t \in Tabs : FocusThrottleExpire(t)
    \/ \E t \in Tabs : VisibilityChange(t)
    \/ \E t \in Tabs : ExplicitSync(t)
    \/ \E t \in Tabs, b \in BOOLEAN : SetEditingProfile(t, b)
    \/ Tick
    \/ \E k \in ForeignKeys(syncSystem) : ForeignWrite(k, StoredCarol)
    \/ \E t \in Tabs, saved \in BOOLEAN : DebounceFire(t, saved)
    \/ \E t \in Tabs, r \in Results : UserSettled(t, r)
    \/ \E t \in Tabs, i \in 1..MaxPasses, r \in Results : PassUserSettled(t, i, r)
    \/ \E t \in Tabs, i \in 1..MaxPasses, r \in Results : PassHistSettled(t, i, r)
    \/ CoreSyncAnalysisHistoryResolved
    \/ CoreSyncAnalysisHistoryRejected
    \/ \E t \in Tabs, r \in Results : USMSyncAnalysisHistorySettled(t, r)
    \/ \E t \in Tabs : RemoveTrigger(t)

\* a promise awaited by a pass of tab t settles
PassSettles(t) ==
    \E i \in 1..MaxPasses, r \in Results :
        PassUserSettled(t, i, r) \/ PassHistSettled(t, i, r)

\* the promises the passes of tab t await settle
PassFairness(t) == WF_vars(PassSettles(t))

Spec == Init /\ [][Next]_vars /\ PassFairness(ThisTab)

\* a syncUserData or syncAnalysisHistory call that handleStorageChange made in
\* tab t is awaiting its result (in SpecTabs the history calls are not told
\* apart by tab; here one tab is open)
PartialRefreshAwaiting(t) == pendingUser[t] > 0 \/ (t \in open /\ pendingHist > 0)

\* C32: in CoreSyncSystem a partial refresh started by a storage event and a
\* full sync pass are never in progress together in one tab.
C32_PartialAndFullNeverTogether ==
    syncSystem = "core" =>
        \A t \in Tabs : ~(PartialRefreshAwaiting(t) /\ passes[t] # <<>>)

\* a syncAllData pass of tab t is in flight, or one has returned and stored
\* its time (the clock of the page starts at T0)
PassStarted(t) ==
    \/ isSyncing[t]
    \/ passes[t] # <<>>
    \/ syncTime[LastSyncKey(syncSystem)] >= T0

\* C30: a page that constructed CoreSyncSystem has had a full sync pass started
\* by init(): from the state init() leaves on, before any timer, focus or
\* storage event, a pass is in flight or has returned.
C30_InitRunsOnePass == syncSystem = "core" => PassStarted(ThisTab)

\* the step is a call the scheduler observes (a write of another page is not
\* observed and changes a key)
ObservedCall ==
    /\ ops' = ops + 1
    /\ Len(log') = 1
    /\ log' # log \/ (profStore' = profStore /\ trig' = trig /\ histStore' = histStore)

\* the step is a 'focus' or 'visibilitychange' event in tab t, whose last
\* pass ended less than the cooldown of the event ago: 10 s for 'focus', 30 s
\* for 'visibilitychange'
EventWithinCooldown(t) ==
    /\ open = {t}
    /\ ObservedCall
    /\ ~isSyncing[t]
    /\ \/ log'[1].op = "focus" /\ sinceSync[t] < FocusLevel
       \/ log'[1].op = "visibilitychange" /\ sinceSync[t] < VisibleLevel

\* C21: a page-focus or visibility-regained event that arrives before the
\* cooldown since the last completed pass has elapsed starts no sync pass
\* (CoreSyncSystem, UnifiedSyncManager).
C21_EventInCooldownStartsNoPass ==
    [][\A t \in Tabs : EventWithinCooldown(t) =>
          /\ log'[1].ret # "started"
          /\ isSyncing'[t] = isSyncing[t]
          /\ passes'[t] = passes[t]
          /\ syncTime' = syncTime]_vars

\* C1: at most one syncAllData pass is in flight per tab, and a syncAllData
\* request made while isSyncing is true starts no pass, neither at once nor
\* when the running pass returns.
C1_AtMostOnePassInFlight ==
    [][\A t \in Tabs :
          /\ Len(passes'[t]) <= 1
          /\ isSyncing[t] => Len(passes'[t]) <= Len(passes[t])]_vars

\* C1 witness: the page called syncAllData while a pass was in flight and the
\* call returned at its guard; the pass is still in flight
C1_Witness ==
    /\ Len(log) > 0
    /\ LastOp.op = "syncAllData"
    /\ LastOp.ret = "skipped"
    /\ isSyncing[ThisTab]
    /\ Len(passes[ThisTab]) = 1

\* C2: in CoreSyncSystem, while isEditingProfile stays true, no step other
\* than a call made by the user or a write of another page (a sync pass, the
\* storage handler with its migration, the handler of the profile-updated
\* event of a save) changes the displayed profile name.
C2_EditingFreezesDisplay ==
    [][\A t \in Tabs :
          (syncSystem = "core" /\ isEditingProfile[t] /\ isEditingProfile'[t] /\ ops' = ops)
              => display'[t] = display[t]]_vars

\* C10: every pass that starts ends with isSyncing = false, whatever its
\* refreshes settle with.
C10_PassEnds == isSyncing[ThisTab] ~> ~isSyncing[ThisTab]

\* C10 witness: a pass in which an awaited promise was rejected has returned
\* and the tab is idle
C10_Witness ==
    /\ Len(log) > 0
    /\ LastOp.op = "pass"
    /\ LastOp.ret = "failed"
    /\ ~isSyncing[ThisTab]
    /\ passes[ThisTab] = <<>>

\* the step in which the syncAllData call in flight in tab t returns
PassReturns(t) == isSyncing[t] /\ ~isSyncing'[t]

\* the step is a syncAllData() call of the page (the first the log shows as
\* started) that ran to its end at once
SyncedAtOnce(t) ==
    /\ open = {t}
    /\ log' # log
    /\ log' = <<Entry("syncAllData", syncSystem, NoProfile, NoProfile, IdNone, "started")>>
    /\ ~isSyncing'[t]

\* lastSyncTime as the step leaves it: in memory and under the key
SyncTimeRecorded(t) ==
    /\ sinceSync'[t] = 0
    /\ syncTime'[LastSyncKey(syncSystem)] = now'

\* C11: in a syncAllData pass of either coordinator a refresh that settles,
\* rejected or not, leaves the other refresh running (UnifiedSyncManager: makes
\* it start); the pass returns only when both have run, and whatever they
\* settled with lastSyncTime is then the current time in memory and in the store.
C11_RefreshesIndependentTimeRecorded ==
    [][\A t \in Tabs :
          /\ PassReturns(t) =>
                /\ Len(passes[t]) = 1
                /\ passes[t][1].hist # "wait"
                /\ passes[t][1].user = "done" \/ passes[t][1].hist = "done"
                /\ SyncTimeRecorded(t)
          /\ SyncedAtOnce(t) => SyncTimeRecorded(t)
          /\ (Len(passes[t]) = 1 /\ Len(passes'[t]) = 1) =>
                /\ passes'[t][1].user # passes[t][1].user =>
                       passes'[t][1].hist = (IF passes[t][1].hist = "wait" THEN "api"
                                            ELSE passes[t][1].hist)
                /\ passes'[t][1].hist # passes[t][1].hist =>
                       \/ passes'[t][1].user = passes[t][1].user
                       \/ passes[t][1].hist = "wait"]_vars

\* C11 witness: a UnifiedSyncManager pass whose profile request was rejected
\* (no profile saved, no trigger written) went on to store the history of the
\* API, returned, and the last-sync-time key holds the current time
C11_Witness ==
    /\ Len(log) > 0
    /\ LastOp.op = "pass"
    /\ LastOp.ret = "failed"
    /\ syncSystem = "usm"
    /\ trig["unified_sync_trigger"] = 0
    /\ Hist = HList(USMSavedHistory(ServerRecords))
    /\ ~isSyncing[ThisTab]
    /\ sinceSync[ThisTab] = 0
    /\ syncTime["unified_last_sync_time"] = now

----------------------------------------------------------------------------
(* Specification of two tabs running CoreSyncSystem                         *)

OtherTab == "B"

\* the names tab A saves
TabNames == {"Alice"}

InitTabs ==
    /\ syncSystem = "core"
    /\ open = Tabs
    /\ localDB \in {"none", "LocalDB"}
    /\ pageSyncFn = FALSE
    /\ dbProfile \in (IF localDB = "none" THEN {PAbsent} ELSE {PAbsent, StoredDave})
    /\ apiService = FALSE
    /\ dbHistory = <<>>
    /\ profStore = [k \in ProfileKeySet |->
                       IF k = "core_user_profile" THEN StoredBob ELSE PAbsent]
    /\ histStore = [k \in HistoryKeys |-> HAbsent]
    /\ trig = [k \in TrigKeys |-> 0]
    /\ trigTimers = [t \in Tabs |-> 0]
    /\ syncTime = [k \in SyncTimeKeys |-> IF k = LastSyncKey("core") THEN OldTs ELSE 0]
    /\ isSyncing = [t \in Tabs |-> FALSE]
    /\ passes = [t \in Tabs |-> <<>>]
    /\ display = [t \in Tabs |-> NoName]
    /\ isEditingProfile = [t \in Tabs |-> FALSE]
    /\ pendingUser = [t \in Tabs |-> 0]
    /\ pendingHist = 0
    /\ debounce = [t \in Tabs |-> NoKey]
    /\ sinceSync = [t \in Tabs |-> 0]
    /\ focusThrottle = [t \in Tabs |-> FALSE]
    /\ now = T0
    /\ ops = 0
    /\ log = <<>>
    /\ before = HAbsent
    /\ migr = MigrNone
    /\ updates = <<>>
    /\ subscribers = [e \in EventNames |-> <<>>]
    /\ window = WindowAtLoad
    /\ initRuns = <<>>
    /\ displayStack = <<>>
    /\ batch = NoBatch
    /\ credentials = NoCredentials

\* a save of tab A reaches tab B as the event of the trigger key, which is
\* written after the profile key: no handler of SpecTabs calls syncUserData
\* outside a pass
NextTabs ==
    \/ \E n \in TabNames :
          ops < MaxCalls /\ CoreSaveUserProfile(ThisTab, Profile(Undef, n, Undef, 0), TRUE, 0)
    \/ \E t \in Tabs : TimerCheck(t)
    \/ Tick
    \/ \E t \in Tabs : DebounceFire(t, TRUE)
    \/ \E t \in Tabs, i \in 1..MaxPasses, r \in Results : PassUserSettled(t, i, r)
    \/ \E t \in Tabs, i \in 1..MaxPasses, r \in Results : PassHistSettled(t, i, r)
    \/ \E t \in Tabs : RemoveTrigger(t)

\* timers fire, time passes and promises settle
TabsFairness ==
    /\ WF_vars(Tick)
    /\ \A t \in Tabs :
          /\ PassFairness(t)
          /\ WF_vars(TimerCheck(t))
          /\ WF_vars(DebounceFire(t, TRUE))
          /\ WF_vars(RemoveTrigger(t))

SpecTabs == InitTabs /\ [][NextTabs]_vars /\ TabsFairness

\* tab A completed a saveUserProfile and the last profile write is one with
\* fullname n (saveUserProfile of tab A is the only profile write of SpecTabs)
SavedName(n) ==
    /\ ops > 0
    /\ profStore["core_user_profile"] = PObj(CoreUserData(Profile(Undef, n, Undef, 0), now))

\* C7: after tab A completed saveUserProfile({fullname: N}) and while no later
\* profile write occurs, tab B (never in edit mode here) eventually displays N.
C7_OtherTabEventuallyDisplays ==
    \A n \in TabNames : SavedName(n) ~> (display[OtherTab] = n \/ ~SavedName(n))

----------------------------------------------------------------------------
(* Specification of two tabs running UnifiedSyncManager with the remote API *)

InitTabsUSM ==
    /\ syncSystem = "usm"
    /\ open = Tabs
    /\ localDB = "none"
    /\ pageSyncFn = FALSE
    /\ dbProfile = PAbsent
    /\ apiService = TRUE
    /\ dbHistory = <<>>
    /\ profStore = [k \in ProfileKeySet |->
                       IF k = "unified_user_profile" THEN StoredBob ELSE PAbsent]
    /\ histStore = [k \in HistoryKeys |-> HAbsent]
    /\ trig = [k \in TrigKeys |-> 0]
    /\ trigTimers = [t \in Tabs |-> 0]
    /\ syncTime = [k \in SyncTimeKeys |-> IF k = LastSyncKey("usm") THEN OldTs ELSE 0]
    /\ isSyncing = [t \in Tabs |-> FALSE]
    /\ passes = [t \in Tabs |-> <<>>]
    /\ display = [t \in Tabs |-> NoName]
    /\ isEditingProfile = [t \in Tabs |-> FALSE]
    /\ pendingUser = [t \in Tabs |-> 0]
    /\ pendingHist = 0
    /\ debounce = [t \in Tabs |-> NoKey]
    /\ sinceSync = [t \in Tabs |-> 0]
    /\ focusThrottle = [t \in Tabs |-> FALSE]
    /\ now = T0
    /\ ops = 0
    /\ log = <<>>
    /\ before = HAbsent
    /\ migr = MigrNone
    /\ updates = <<>>
    /\ subscribers = [e \in EventNames |-> <<>>]
    /\ window = WindowAtLoad
    /\ initRuns = <<>>
    /\ displayStack = <<>>
    /\ batch = NoBatch
    /\ credentials = NoCredentials

\* one saveProfile by tab A, the periodic passes of both tabs, their storage
\* handlers and the promises of the passes
NextTabsUSM ==
    \/ \E n \in TabNames :
          ops < MaxCalls /\ USMSaveProfile(ThisTab, Profile(Undef, n, Undef, 0), TRUE, 0)
    \/ \E t \in Tabs : TimerCheck(t)
    \/ \E t \in Tabs : DebounceFire(t, TRUE)
    \/ \E t \in Tabs, i \in 1..MaxPasses, r \in Results : PassUserSettled(t, i, r)
    \/ \E t \in Tabs, i \in 1..MaxPasses, r \in Results : PassHistSettled(t, i, r)

TabsUSMFairness ==
    \A t \in Tabs :
        /\ PassFairness(t)
        /\ WF_vars(TimerCheck(t))
        /\ WF_vars(DebounceFire(t, TRUE))

SpecTabsUSM == InitTabsUSM /\ [][NextTabsUSM]_vars /\ TabsUSMFairness

\* what a refresh started or made by a storage handler changes
refreshVars == <<profStore, histStore, trig, syncTime, isSyncing, passes, pendingUser,
                 pendingHist, display>>

\* the storage handler of some tab runs and starts a refresh (a pass, a
\* profile refresh or a history refresh) or writes the store
StorageResponse ==
    \E t \in Tabs : DebounceFire(t, TRUE) /\ refreshVars' # refreshVars

\* C34: with two tabs running UnifiedSyncManager and a logged-in apiService,
\* after a single saveProfile there is a point from which no storage handler
\* of either tab starts a refresh or writes the store: the syncs of the two
\* tabs do not re-trigger one another for ever.
C34_TabsReachQuiescence == <>[][~StorageResponse]_vars

\* the save was made and the handler of the other tab has run on its event
C34_Witness ==
    /\ ops = 1
    /\ log # <<>> /\ log[Len(log)].op = "saveProfile"
    /\ \A t \in Tabs : debounce[t] = NoKey

----------------------------------------------------------------------------
(* Specification of the first pass of UnifiedSyncManager and local saves    *)

\* a page whose apiService is logged in: when the constructor returns, the
\* syncAllData of init() is awaiting apiService.getUserProfile()
InitResume == Init /\ syncSystem = "usm" /\ apiService

\* the profiles the page saves
ResumeProfiles == {Profile(Undef, "Alice", Undef, 0), Profile("u7", "Frank", Undef, 0)}

\* no later pass is started: every pass of SpecResume is the one of init()
NextResume ==
    \/ \E profile \in ResumeProfiles, saved \in BOOLEAN, dt \in {0, 1} :
          USMSaveProfile(ThisTab, profile, saved, dt)
    \/ \E i \in 1..MaxPasses, r \in Results : PassUserSettled(ThisTab, i, r)
    \/ \E i \in 1..MaxPasses, r \in Results : PassHistSettled(ThisTab, i, r)

SpecResume == InitResume /\ [][NextResume]_vars /\ PassFairness(ThisTab)

\* the pass of tab t is awaiting apiService.getUserProfile()
AwaitingProfile(t) == passes[t] # <<>> /\ passes[t][1].user # "done"

\* the last call was a saveProfile that stored its profile
LocallySaved ==
    /\ log # <<>>
    /\ log[Len(log)].op = "saveProfile"
    /\ log[Len(log)].ret = "ok"
    /\ profStore["unified_user_profile"] = PObj(log[Len(log)].rec)

\* C35: when the pass resumes after apiService.getUserProfile() settled, a
\* profile that saveProfile stored while the pass was awaiting is still the
\* stored profile.
C35_LocalSaveSurvivesPass ==
    [][(AwaitingProfile(ThisTab) /\ LocallySaved /\ ~AwaitingProfile(ThisTab)')
           => profStore'["unified_user_profile"] = profStore["unified_user_profile"]]_vars

----------------------------------------------------------------------------
(* Specification of DBManager in its local fallback mode                    *)

\* the key getUserSpecificKey('analysisHistory') gives when no currentUser is
\* stored
DBMHistoryKey == "analysisHistory_default"

\* DBManager.getAllAnalysisHistory() without a logged-in apiService: the list
\* under the user-specific key, sorted; [] when JSON.parse throws
DBMGetAllAnalysisHistory(store) ==
    IF ParseThrows(store[DBMHistoryKey]) THEN <<>>
    ELSE SortDesc(ParseOrEmpty(store[DBMHistoryKey]))

\* DBManager.addAnalysisRecord(record) without a logged-in apiService: reads
\* analysisHistory, writes the user-specific key through
\* _saveHistoryToLocalStorage; its own subscribers list is empty
DBMAddAnalysisRecord(record, rand, dt) ==
    /\ ~apiService
    /\ ops < MaxOps
    /\ ops' = ops + 1
    /\ now' = now + dt
    /\ before' = Hist
    /\ IF ParseThrows(Hist)
       THEN /\ log' = Logged(Entry("dbAdd", "dbm", record, NoRec, IdNone, "throws"))
            /\ UNCHANGED histStore
       ELSE LET recordData == RecordData(record, now + dt, rand) IN
            /\ histStore' = [histStore EXCEPT ![DBMHistoryKey] =
                                HList(AddedList(ParseOrEmpty(Hist), recordData))]
            /\ log' = Logged(Entry("dbAdd", "dbm", record, recordData, IdNone, "ok"))
    /\ UNCHANGED <<trig, trigTimers, localDB, dbHistory, pendingHist>>
    /\ UNCHANGED schedVars

\* a call of DBManager.getAllAnalysisHistory(): the entry's rec is the list
\* the call returns; nothing is written
DBMGetAllCall ==
    /\ ~apiService
    /\ ops < MaxOps
    /\ ops' = ops + 1
    /\ before' = Hist
    /\ log' = Logged(Entry("dbGetAll", "dbm", NoArg, DBMGetAllAnalysisHistory(histStore),
                           IdNone, "returned"))
    /\ UNCHANGED <<histStore, trig, trigTimers, localDB, dbHistory, pendingHist, now>>
    /\ UNCHANGED schedVars

\* a page without a logged-in apiService; analysisHistory may hold the list of
\* one of the other coordinators
InitDBM ==
    /\ InitPage
    /\ \E h \in {HAbsent, HCorrupt, HList(BaseList(2))} :
          histStore = [k \in HistoryKeys |-> IF k = "analysisHistory" THEN h ELSE HAbsent]
    /\ trig = [k \in TrigKeys |-> 0]
    /\ trigTimers = [t \in Tabs |-> 0]
    /\ localDB = "none"
    /\ dbHistory = <<>>
    /\ pendingHist = 0
    /\ now = T0
    /\ ops = 0
    /\ log = <<>>
    /\ before = HAbsent

NextDBM ==
    \/ \E r \in NewRecords, rand \in RandVals, dt \in Elapsed : DBMAddAnalysisRecord(r, rand, dt)
    \/ DBMGetAllCall
    \/ \E id \in DeleteArgs, patch \in DBMPatches, dt \in Elapsed :
          DBMUpdateAnalysisRecord(id, patch, dt)

SpecDBM == InitDBM /\ [][NextDBM]_vars

\* the step is a DBManager.addAnalysisRecord that returned its record
DBMAdded ==
    /\ ops' = ops + 1
    /\ log'[Len(log')].op = "dbAdd"
    /\ log'[Len(log')].ret = "ok"

\* C36: after DBManager.addAnalysisRecord(r) in the local fallback mode,
\* getAllAnalysisHistory returns the new record together with every record it
\* returned before the call (the first maxHistoryRecords - 1 of them).
C36_DBMAddKeepsWhatGetAllReturned ==
    [][DBMAdded =>
          LET returnedBefore == DBMGetAllAnalysisHistory(histStore)
              returnedAfter == DBMGetAllAnalysisHistory(histStore')
          IN  /\ Occurrences(returnedAfter, log'[Len(log')].rec) > 0
              /\ \A i \in 1..Min(Len(returnedBefore), maxHistoryRecords - 1) :
                     Occurrences(returnedAfter, returnedBefore[i]) > 0]_vars

----------------------------------------------------------------------------
(* LocalDB.batchDeleteAnalysisRecords                                       *)

batchFrame == <<histStore, profStore, trig, trigTimers, syncTime, localDB, dbProfile,
                pageSyncFn, apiService, syncSystem, open, tabVars, pendingHist, now, before,
                migr, updates, subscribers, window, initRuns, displayStack, log,
                credentials>>

\* the object store 'analysisHistory' after two addAnalysisRecord calls
\* (keyPath 'id', autoIncrement)
StoredInDB == [i \in 1..2 |-> Rec(IdNum(i), 500 - i, 50, 500 - i, 0)]

\* the lists of ids a caller passes: keys of stored records and a key that
\* is not stored
BatchIds == UNION {[1..k -> {IdNum(1), IdNum(2), IdNum(9)}] : k \in 0..MaxIds}

\* store.delete(id)
DeletedFromStore(db, id) == SelectSeq(db, LAMBDA r : r.id # id)

\* the promise of the callback once forEach has started deletedCount of
\* totalCount callbacks: checkComplete runs only in a request callback
InnerAfter(deletedCount, totalCount) ==
    IF deletedCount > 0 /\ deletedCount = totalCount THEN "resolved" ELSE "pending"

\* batchDeleteAnalysisRecords(ids) up to the point where it yields: the
\* transaction is open, one delete request per id is placed
BatchDeleteCalled(ids) ==
    /\ localDB = "LocalDB"
    /\ batch = NoBatch
    /\ ops < MaxCalls
    /\ ops' = ops + 1
    /\ batch' = [ids |-> ids, next |-> 0, deletedCount |-> 0,
                 inner |-> InnerAfter(0, Len(ids)), tx |-> "active", outer |-> "pending",
                 value |-> 0]
    /\ before' = HList(dbHistory)
    /\ UNCHANGED dbHistory
    /\ UNCHANGED <<histStore, profStore, trig, trigTimers, syncTime, localDB, dbProfile,
                   pageSyncFn, apiService, syncSystem, open, tabVars, pendingHist, now,
                   migr, updates, subscribers, window, initRuns, displayStack, log,
                   credentials>>

\* request.onsuccess of the next delete request
RequestSucceeds ==
    /\ batch.tx = "active"
    /\ batch.next < Len(batch.ids)
    /\ dbHistory' = DeletedFromStore(dbHistory, batch.ids[batch.next + 1])
    /\ batch' = [batch EXCEPT !.next = @ + 1,
                              !.deletedCount = @ + 1,
                              !.inner = InnerAfter(batch.deletedCount + 1, Len(batch.ids))]
    /\ UNCHANGED <<ops, batchFrame>>

\* request.onerror of the next delete request; the error event of the first
\* one bubbles to transaction.onerror, which rejects the promise of
\* transaction(), and the transaction is aborted: what it deleted is back and
\* the requests still waiting fail as well
RequestFails ==
    /\ batch.tx \in {"active", "aborted"}
    /\ batch.next < Len(batch.ids)
    /\ dbHistory' = (IF before.tag = "list" THEN before.list ELSE dbHistory)
    /\ batch' = [batch EXCEPT !.next = @ + 1,
                              !.deletedCount = @ + 1,
                              !.inner = InnerAfter(batch.deletedCount + 1, Len(batch.ids)),
                              !.tx = "aborted",
                              !.outer = IF @ = "pending" THEN "rejected" ELSE @]
    /\ UNCHANGED <<ops, batchFrame>>

\* transaction.oncomplete: resolve(result), where result is the promise of
\* the callback; the promise of transaction() is settled only if that one is
TransactionCompletes ==
    /\ batch.tx = "active"
    /\ batch.next = Len(batch.ids)
    /\ batch' = [batch EXCEPT !.tx = "complete",
                              !.outer = IF batch.inner = "resolved" THEN "resolved"
                                        ELSE "adopted pending",
                              !.value = IF batch.inner = "resolved" THEN Len(batch.ids)
                                        ELSE @]
    /\ UNCHANGED <<ops, dbHistory, batchFrame>>

InitBatch ==
    /\ InitPage
    /\ histStore = [k \in HistoryKeys |-> HAbsent]
    /\ trig = [k \in TrigKeys |-> 0]
    /\ trigTimers = [t \in Tabs |-> 0]
    /\ localDB = "LocalDB"
    /\ dbHistory = StoredInDB
    /\ pendingHist = 0
    /\ now = T0
    /\ ops = 0
    /\ log = <<>>
    /\ before = HAbsent

NextBatch ==
    \/ \E ids \in BatchIds : BatchDeleteCalled(ids)
    \/ RequestSucceeds
    \/ RequestFails
    \/ TransactionCompletes

\* the events of the requests and of the transaction are delivered
BatchFairness == WF_vars(RequestSucceeds \/ RequestFails \/ TransactionCompletes)

SpecBatch == InitBatch /\ [][NextBatch]_vars /\ BatchFairness

\* the promise batchDeleteAnalysisRecords returned is rejected, or resolved
\* with the number of ids
BatchSettled ==
    \/ batch.outer = "rejected"
    \/ batch.outer = "resolved" /\ batch.value = Len(batch.ids)

\* C37: the promise LocalDB.batchDeleteAnalysisRecords(ids) returns is
\* eventually settled, for every list ids (the empty list included), and
\* when it is resolved its value is the number of ids.
C37_BatchDeleteSettles == (batch.outer = "pending") ~> BatchSettled

----------------------------------------------------------------------------
(* applySecurityFixes and the stored credentials (init_sync_system.js)      *)

credsFrame == <<histStore, profStore, trig, trigTimers, syncTime, localDB, dbHistory, dbProfile,
                pageSyncFn, apiService, syncSystem, open, tabVars, pendingHist, before,
                migr, updates, subscribers, window, initRuns, displayStack, batch>>

\* the length above which the repair leaves a stored password alone
MaxRepairedLength == 100

\* characters whose code is 0x40..0x7F, among those the passwords use
HighChars == {"k", "p", "w"}

\* passwords: plain texts that have a character outside the base64 alphabet
\* (atob throws on them), one of them beginning like a JSON object; and the
\* empty text
Passwords == {<<>>, <<"p", "w", "!">>, <<"p", "w", "!", "2">>, <<"{", "\"", "k", "!">>}
Usernames == {"ann", "ben"}

\* text.length: btoa turns every three characters into four, with padding
RECURSIVE TextLength(_)
TextLength(text) ==
    IF text.layers = 0 THEN Len(text.base)
    ELSE 4 * ((TextLength(Text(text.base, text.layers - 1)) + 2) \div 3)

\* secureStorage.encrypt(text): btoa(unescape(encodeURIComponent(text)))
Encrypt(text) == IF text.base = <<>> THEN Text(<<>>, 0) ELSE Text(text.base, text.layers + 1)

\* secureStorage.decrypt(encrypted): atob, '' when atob throws
Decrypt(encrypted) ==
    IF encrypted.base = <<>> \/ encrypted.layers = 0 THEN Text(<<>>, 0)
    ELSE Text(encrypted.base, encrypted.layers - 1)

\* text.startsWith('eyJ'): the base64 text of something that begins with {"
\* and a character of HighChars
StartsWithEyJ(text) ==
    /\ text.layers = 1
    /\ Len(text.base) >= 3
    /\ text.base[1] = "{" /\ text.base[2] = "\"" /\ text.base[3] \in HighChars

\* the value secureStorage.saveCredentials(username, password) stores
SavedCredentials(username, password, t) ==
    [present |-> TRUE, username |-> username, password |-> Encrypt(password), savedAt |-> t]

\* secureStorage.verifyPassword(inputPassword)
VerifyPassword(creds, inputPassword) ==
    creds.present /\ Decrypt(creds.password) = inputPassword

\* the condition under which applySecurityFixes saves the credentials again
NeedsRepair(creds) ==
    /\ creds.present
    /\ creds.password.base # <<>>
    /\ ~StartsWithEyJ(creds.password)
    /\ TextLength(creds.password) < MaxRepairedLength

\* the page calls secureStorage.saveCredentials(username, password)
SaveCredentials(username, password, dt) ==
    /\ ops < MaxCalls
    /\ ops' = ops + 1
    /\ now' = now + dt
    /\ credentials' = SavedCredentials(username, Text(password, 0), now + dt)
    /\ log' = <<[op |-> "saveCredentials", username |-> username, password |-> password,
                 ret |-> TRUE]>>
    /\ UNCHANGED credsFrame

\* a page of an earlier version stored the password as plain text, which is
\* what the repair is for
PlainCredentialsStored(username, password) ==
    /\ ~credentials.present
    /\ ops = 0
    /\ password # <<>>
    /\ credentials' = [present |-> TRUE, username |-> username,
                       password |-> Text(password, 0), savedAt |-> OldTs]
    /\ UNCHANGED <<ops, now, log, credsFrame>>

\* a page loads and applySecurityFixes runs: stored credentials whose
\* password does not look encoded are saved again through saveCredentials
ApplySecurityFixes ==
    /\ credentials' = IF NeedsRepair(credentials)
                      THEN SavedCredentials(credentials.username, credentials.password, now)
                      ELSE credentials
    /\ UNCHANGED <<ops, now, log, credsFrame>>

\* the page calls secureStorage.verifyPassword(inputPassword)
VerifyPasswordCall(inputPassword) ==
    /\ log' = <<[op |-> "verifyPassword", username |-> "", password |-> inputPassword,
                 ret |-> VerifyPassword(credentials, Text(inputPassword, 0))]>>
    /\ UNCHANGED <<credentials, ops, now, credsFrame>>

InitCreds ==
    /\ InitPage
    /\ histStore = [k \in HistoryKeys |-> HAbsent]
    /\ trig = [k \in TrigKeys |-> 0]
    /\ trigTimers = [t \in Tabs |-> 0]
    /\ localDB = "none"
    /\ dbHistory = <<>>
    /\ pendingHist = 0
    /\ now = T0
    /\ ops = 0
    /\ log = <<>>
    /\ before = HAbsent

NextCreds ==
    \/ \E u \in Usernames, p \in Passwords, dt \in Elapsed : SaveCredentials(u, p, dt)
    \/ \E u \in Usernames, p \in Passwords : PlainCredentialsStored(u, p)
    \/ ApplySecurityFixes
    \/ \E q \in Passwords : VerifyPasswordCall(q)

SpecCreds == InitCreds /\ [][NextCreds]_vars

\* the stored password was written by saveCredentials
StoredBySaveCredentials == credentials.present /\ credentials.password.layers > 0

\* C38: once saveCredentials has stored the credentials, a page load
\* (applySecurityFixes) leaves them as they are, and with them the answer of
\* verifyPassword to every input.
C38_RepairKeepsSavedCredentials ==
    [][(StoredBySaveCredentials /\ ops' = ops)
          => /\ credentials' = credentials
             /\ \A q \in Passwords :
                    VerifyPassword(credentials', Text(q, 0))
                        = VerifyPassword(credentials, Text(q, 0))]_vars

====
